---- MODULE Spec2Model ----
(***************************************************************************)
(* A model of the calorie tracker's client-side logic:                     *)
(*   - HistoryScreen: fetchHistory (30-day filter, sort, grouping by day,  *)
(*     display labels), pull-to-refresh and delete;                        *)
(*   - HomeScreen: fetchTodayEntries and the two long-press deletes;       *)
(*   - AuthProvider: restoreSession, the auth-state listener, login and    *)
(*     logout, and AppNavigator's choice of the screen to render;          *)
(*   - AddFoodScreen: the form, handleSave, and analyzeFoodImage;          *)
(*   - SettingsScreen: handleUpdateGoal;                                   *)
(*   - WorkoutScreen: the timer, and the save of a finished workout;       *)
(*   - AIChatScreen: sendMessage, the two modes and sendChatMessage.       *)
(*                                                                         *)
(* Time is counted in ticks; a day has DayLen ticks.  A timestamp is the   *)
(* number of ticks since the epoch (UTC), tz is the device's offset        *)
(* (local time minus UTC) in ticks.                                        *)
(***************************************************************************)
EXTENDS Integers, Sequences, FiniteSets, TLC

VARIABLES
    \* environment
    now,            \* the device clock (ticks since the epoch, UTC)
    tz,             \* the device's time-zone offset in ticks (local - UTC)
    foodStore,      \* remote collection 'foodEntries': sequence of documents
    workoutStore,   \* remote collection 'workouts': sequence of documents
    \* AuthProvider and the services it calls
    user,           \* useState<User | null>: the uid, or None
    userProfile,    \* useState<UserProfile | null>
    loading,        \* useState(true)
    authUser,       \* the auth service's auth.currentUser: the uid, or None
    authReady,      \* the listener has had its first call (with currentUser)
    pendingNotify,  \* the auth state the listener is about to be called with
    secureStore,    \* SecureStore's item 'auth_credentials'
    restore,        \* restoreSession: where it is and how it ended
    loginOp,        \* the call of login in flight, if any
    logoutOp,       \* the call of logout in flight, if any
    profileFetches, \* uids whose getDoc(users/uid) is in flight
    authAlerts,     \* alerts shown by LoginScreen ('Login Failed')
    firstScreen,    \* history: what AppNavigator rendered when loading ended
    lastAuth,       \* history: the login or logout that completed last
    \* HistoryScreen
    dayGroups,      \* useState<DayGroup[]>
    hLoading,       \* useState(true)
    refreshing,     \* useState(false)
    hFetch,         \* the calls of fetchHistory in flight, one per slot
    hDelete,        \* the confirmed delete of handleDeleteEntry, if any
    hAlerts,        \* the alerts HistoryScreen has shown, in order
    shown,          \* history: which fetch produced dayGroups, from what input
    completed,      \* history: the fetches that set dayGroups, in order
    \* HomeScreen
    entries,        \* useState<FoodEntry[]>
    workouts,       \* useState<WorkoutEntry[]>
    totalCalories,  \* useState(0)
    caloriesBurned, \* useState(0)
    homeRefreshing, \* useState(false)
    homeFetch,      \* the calls of fetchTodayEntries in flight, one per slot
    homeDelete,     \* the confirmed delete of a long-press handler, if any
    homeAlerts,     \* the alerts HomeScreen has shown after a confirmation
    homeRejections, \* promises of HomeScreen's handlers rejected and not caught
    \* AddFoodScreen
    photoUri,       \* useState<string | null>: a photo is attached or not
    foodName,       \* useState(''): the text of the name field
    calories,       \* useState(''): the text of the calories field
    notes,          \* useState(''): the text of the notes field
    saving,         \* useState(false)
    analyzing,      \* useState(false)
    analysisResult, \* useState<FoodAnalysisResult | null>
    analysis,       \* the call of analyzePhoto in flight, if any
    afSave,         \* the call of handleSave in flight, if any
    afAlerts,       \* the alerts AddFoodScreen has shown, in order
    afCalls,        \* the network calls handleSave has made, in order
    \* SettingsScreen and the profile document
    goalInput,      \* useState(userProfile.dailyGoal.toString() || '2000')
    goalSaving,     \* SettingsScreen's useState(false) `saving`
    goalOp,         \* the call of handleUpdateGoal in flight, if any
    goalAlerts,     \* the alerts SettingsScreen has shown, in order
    goalCalls,      \* the number of setDoc calls updateDailyGoal has made
    remoteGoal,     \* dailyGoal of the remote document users/<uid>
    \* WorkoutScreen
    selectedWorkout, \* useState(WORKOUT_TYPES[0]): the id of the activity
    isTracking,     \* useState(false)
    isPaused,       \* useState(false)
    elapsedTime,    \* useState(0): seconds
    wCaloriesBurned, \* WorkoutScreen's useState(0) `caloriesBurned`
    timerRef,       \* the interval of the timer effect and what it captured
    stopDialog,     \* the 'Finish Workout' alert and what its handlers captured
    wSave,          \* the addDoc of the 'Save' handler in flight, if any
    wAlerts,        \* the alerts WorkoutScreen has shown after a save
    \* AIChatScreen
    mode,           \* useState<AIMode>('fitness')
    showModeSelector, \* useState(false)
    modeStates,     \* useState<Record<AIMode, ModeState>>
    inputText,      \* useState('')
    isTyping,       \* useState(false)
    chatReqs,       \* the calls of sendChatMessage made, in order, their state,
                    \* and (history) the mode on display when the last one settled
    chatAlerts      \* the number of 'Connection Error' alerts shown

historyVars == <<dayGroups, hLoading, refreshing, hFetch, hDelete, hAlerts,
                 shown, completed>>
homeVars == <<entries, workouts, totalCalories, caloriesBurned, homeRefreshing,
              homeFetch, homeDelete, homeAlerts, homeRejections>>
authVars == <<user, userProfile, loading, authUser, authReady, pendingNotify,
              secureStore, restore, loginOp, logoutOp, profileFetches, authAlerts,
              firstScreen, lastAuth>>
envVars == <<now, tz, foodStore, workoutStore>>
addFoodVars == <<photoUri, foodName, calories, notes, saving, analyzing,
                 analysisResult, analysis, afSave, afAlerts, afCalls>>
settingsVars == <<goalInput, goalSaving, goalOp, goalAlerts, goalCalls, remoteGoal>>
workoutVars == <<selectedWorkout, isTracking, isPaused, elapsedTime, wCaloriesBurned,
                 timerRef, stopDialog, wSave, wAlerts>>
chatVars == <<mode, showModeSelector, modeStates, inputText, isTyping, chatReqs,
              chatAlerts>>
formVars == <<addFoodVars, settingsVars, workoutVars, chatVars>>

vars == <<envVars, authVars, historyVars, homeVars, formVars>>

(***************************************************************************)
(* Bounds of the model and constants of the program.                       *)
(***************************************************************************)
DayLen == 2          \* ticks per day
BaseDay == 40        \* the day (since the epoch) on which the model starts
MaxRecords == 3      \* documents drawn into the store by Init
MaxFewRecords == 2   \* the same, in the specifications that interleave handlers
MaxFetches == 3      \* calls of fetchHistory (of fetchTodayEntries) in one run
MaxAlerts == 1       \* failed deletes (each shows an alert) in one run
LookbackDays == 30   \* thirtyDaysAgo.setDate(getDate() - 30)

None == "none"

\* setUserProfile(null)
NoProfile == [uid |-> None, dailyGoal |-> 0]

\* no entry chosen for a delete
NoEntry == [id |-> 0]
Me == "u1"
Other == "u2"

TzOffsets == (0 - (DayLen \div 2)) .. (DayLen \div 2)
NowChoices == {BaseDay * DayLen + k : k \in 0 .. (DayLen - 1)}

\* The ages (now - timestamp) of the documents Init draws: one tick in the
\* future, now, one tick ago, exactly one day ago, 8 days ago, and on both
\* sides of the 30-day cutoff.
Ages == {-1, 0, 1, DayLen, 8 * DayLen,
         LookbackDays * DayLen, LookbackDays * DayLen + 1}

(***************************************************************************)
(* Dates.  Date.toISOString() prints the UTC date and time, so             *)
(* toISOString().split('T')[0] is the UTC calendar date; it is modelled    *)
(* as the number of the UTC day, which orders as the 'YYYY-MM-DD' strings  *)
(* do.  toLocaleDateString and setDate work on the local calendar.         *)
(***************************************************************************)
UtcDay(t) == t \div DayLen

LocalDay(t, z) == (t + z) \div DayLen

\* entry.timestamp.toISOString().split('T')[0]
IsoDate(t) == UtcDay(t)

\* date.toLocaleDateString('en-US', {weekday:'short', month:'short', day:'numeric'})
\* (day 0 of the epoch was a Thursday)
LocaleDateString(t, z) ==
    <<"WeekdayMonthDay", (LocalDay(t, z) + 4) % 7, LocalDay(t, z)>>

\* yesterday.setDate(yesterday.getDate() - 1): one local calendar day back,
\* same local time of day
SetDateMinus(t, days) == t - days * DayLen

formatDisplayDate(date, today) ==
    LET yesterday == SetDateMinus(today, 1)
        dateString == IsoDate(date)
        todayString == IsoDate(today)
        yesterdayString == IsoDate(yesterday)
    IN  IF dateString = todayString THEN <<"Today">>
        ELSE IF dateString = yesterdayString THEN <<"Yesterday">>
        ELSE LocaleDateString(date, tz)

(***************************************************************************)
(* fetchHistory's pure steps.                                              *)
(***************************************************************************)
\* the documents of a snapshot that the forEach pushes to allEntries
RECURSIVE SelectSeq2(_, _, _)
SelectSeq2(docs, owner, cutoff) ==
    IF docs = <<>> THEN <<>>
    ELSE LET d == Head(docs)
             rest == SelectSeq2(Tail(docs), owner, cutoff)
         IN  IF d.userId = owner /\ d.timestamp >= cutoff
             THEN <<d>> \o rest
             ELSE rest

\* mutant: the filter has an upper bound as well, records dated after the
\* device clock are dropped
FilterSnapshot_UpToNow(docs, owner, cutoff) ==
    SelectSeq(SelectSeq2(docs, owner, cutoff), LAMBDA d : d.timestamp <= now)

\* query(ref, where('userId', '==', uid)) then `if (timestamp >= thirtyDaysAgo)`
FilterSnapshot(docs, owner, cutoff) == SelectSeq2(docs, owner, cutoff)

\* Array.prototype.sort is stable; the comparator b.timestamp - a.timestamp
\* orders by timestamp descending.
\* mutant: an unstable sort, the later of two equal timestamps comes first
RECURSIVE InsertDesc_TiesReversed(_, _)
InsertDesc_TiesReversed(s, e) ==
    IF s = <<>> THEN <<e>>
    ELSE IF Head(s).timestamp > e.timestamp
         THEN <<Head(s)>> \o InsertDesc_TiesReversed(Tail(s), e)
         ELSE <<e>> \o s

RECURSIVE InsertDesc(_, _)
InsertDesc(s, e) ==
    IF s = <<>> THEN <<e>>
    ELSE IF Head(s).timestamp >= e.timestamp
         THEN <<Head(s)>> \o InsertDesc(Tail(s), e)
         ELSE <<e>> \o s

\* mutant: the sort is left out
SortEntries_Unsorted(s) == s

RECURSIVE SortEntries(_)
SortEntries(s) ==
    IF s = <<>> THEN <<>>
    ELSE InsertDesc(SortEntries(SubSeq(s, 1, Len(s) - 1)), s[Len(s)])

EntryCalories(entry) == IF entry.type = "workout" THEN 0 ELSE entry.calories

\* mutant: the type test is dropped, a food entry's calories count as burned
EntryBurned_AnyType(entry) ==
    IF entry.type = "workout" THEN entry.caloriesBurned ELSE entry.calories

EntryBurned(entry) == IF entry.type = "workout" THEN entry.caloriesBurned ELSE 0

GroupIndex(groups, dateKey) ==
    LET hits == {i \in 1 .. Len(groups) : groups[i].date = dateKey}
    IN  IF hits = {} THEN 0 ELSE CHOOSE i \in hits : TRUE

\* mutant: an entry of a day that has a group already is counted in the
\* totals but not pushed to the group's entries
AddEntry_NoPush(groups, entry, today) ==
    LET dateKey == IsoDate(entry.timestamp)
        i == GroupIndex(groups, dateKey)
    IN  IF i # 0
        THEN [groups EXCEPT ![i] =
                 [@ EXCEPT !.totalCalories = @ + EntryCalories(entry),
                           !.totalBurned = @ + EntryBurned(entry)]]
        ELSE Append(groups,
                 [date |-> dateKey,
                  displayDate |-> formatDisplayDate(entry.timestamp, today),
                  entries |-> <<entry>>,
                  totalCalories |-> EntryCalories(entry),
                  totalBurned |-> EntryBurned(entry)])

\* the body of allEntries.forEach((entry) => { ... }) on the Map `groups`
\* (a Map keeps its keys in insertion order)
AddEntry(groups, entry, today) ==
    LET dateKey == IsoDate(entry.timestamp)
        i == GroupIndex(groups, dateKey)
    IN  IF i # 0
        THEN [groups EXCEPT ![i] =
                 [@ EXCEPT !.entries = Append(@, entry),
                           !.totalCalories = @ + EntryCalories(entry),
                           !.totalBurned = @ + EntryBurned(entry)]]
        ELSE Append(groups,
                 [date |-> dateKey,
                  displayDate |-> formatDisplayDate(entry.timestamp, today),
                  entries |-> <<entry>>,
                  totalCalories |-> EntryCalories(entry),
                  totalBurned |-> EntryBurned(entry)])

RECURSIVE GroupEntries(_, _, _)
GroupEntries(sorted, groups, today) ==
    IF sorted = <<>> THEN groups
    ELSE GroupEntries(Tail(sorted), AddEntry(groups, Head(sorted), today), today)

\* mutant: the Map `groups` outlives the call (a module-level Map instead of
\* the `new Map()` of line 126), so a call starts from the groups on display
BuildDayGroups_KeepsGroups(allEntries, today) ==
    GroupEntries(SortEntries(allEntries), dayGroups, today)

\* lines 123-152: sort, group, Array.from(groups.values())
BuildDayGroups(allEntries, today) ==
    GroupEntries(SortEntries(allEntries), <<>>, today)

(***************************************************************************)
(* The documents Init draws.  Document i of a collection carries an amount *)
(* of its own (a power of two), so that a sum tells which documents it     *)
(* counts.                                                                 *)
(***************************************************************************)
Pow2(i) == IF i = 0 THEN 1 ELSE IF i = 1 THEN 2 ELSE IF i = 2 THEN 4
           ELSE IF i = 3 THEN 8 ELSE IF i = 4 THEN 16 ELSE 32

FoodDoc(i, owner, t) ==
    [id |-> i, type |-> "food", userId |-> owner, calories |-> Pow2(i),
     timestamp |-> t]

WorkoutDoc(i, owner, t) ==
    [id |-> i, type |-> "workout", userId |-> owner, caloriesBurned |-> 3 * Pow2(i),
     timestamp |-> t]

\* what document i can be: a food entry or a workout of the signed-in user at
\* any of the ages, or another user's food entry dated now
DocChoices(i, n) ==
    {FoodDoc(i, Me, n - a) : a \in Ages} \cup {WorkoutDoc(i, Me, n - a) : a \in Ages}
        \cup {FoodDoc(i, Other, n)}

\* the smaller choice of the specifications that interleave handlers: a food
\* entry or a workout of today, or a food entry of yesterday
FewDocChoices(i, n) ==
    {FoodDoc(i, Me, n), WorkoutDoc(i, Me, n), FoodDoc(i, Me, n - DayLen)}

\* the stores of at most k documents, document i drawn from its choices
RECURSIVE DocSeqs(_, _, _)
DocSeqs(k, n, few) ==
    IF k = 0 THEN {<<>>}
    ELSE LET shorter == DocSeqs(k - 1, n, few)
         IN  shorter \cup
             {Append(s, d) : s \in {x \in shorter : Len(x) = k - 1},
                             d \in IF few THEN FewDocChoices(k, n) ELSE DocChoices(k, n)}

OfType(docs, ty) == SelectSeq(docs, LAMBDA d : d.type = ty)

IdleFetch == [pc |-> "idle", thirtyDaysAgo |-> 0, allEntries |-> <<>>, origin |-> None]

NoDelete == [pc |-> "none", entry |-> NoEntry]

\* JSON.stringify({ email, password })
Pair(email, password) == [kind |-> "pair", email |-> email, password |-> password]

\* no item under the key
NoItem == [kind |-> "none", email |-> "", password |-> ""]

\* an item that JSON.parse rejects
CorruptItem == [kind |-> "corrupt", email |-> "", password |-> ""]

(***************************************************************************)
(* Text.  A string is a sequence of one-character strings; the conversions *)
(* between text and numbers are computed as JavaScript computes them.      *)
(***************************************************************************)
Digits == <<"0", "1", "2", "3", "4", "5", "6", "7", "8", "9">>

IsDigit(c) == \E d \in 1 .. Len(Digits) : Digits[d] = c

DigitVal(c) == (CHOOSE d \in 1 .. Len(Digits) : Digits[d] = c) - 1

\* white space as String.prototype.trim and parseInt skip it
IsSpace(c) == c = " "

RECURSIVE TrimStart(_)
TrimStart(t) ==
    IF t # <<>> /\ IsSpace(Head(t)) THEN TrimStart(Tail(t)) ELSE t

RECURSIVE TrimEnd(_)
TrimEnd(t) ==
    IF t # <<>> /\ IsSpace(t[Len(t)]) THEN TrimEnd(SubSeq(t, 1, Len(t) - 1)) ELSE t

\* String.prototype.trim
Trim(t) == TrimEnd(TrimStart(t))

\* Number.prototype.toString of an integer
RECURSIVE ToText(_)
ToText(n) ==
    IF n < 0 THEN <<"-">> \o ToText(0 - n)
    ELSE IF n < Len(Digits) THEN <<Digits[n + 1]>>
    ELSE ToText(n \div Len(Digits)) \o <<Digits[(n % Len(Digits)) + 1]>>

\* a JavaScript number that parseInt returns: NaN, or an integer
NaN == [nan |-> TRUE, n |-> 0]

Num(n) == [nan |-> FALSE, n |-> n]

isNaN(x) == x.nan

\* the longest prefix of decimal digits
RECURSIVE LeadingDigits(_)
LeadingDigits(t) ==
    IF t # <<>> /\ IsDigit(Head(t)) THEN <<Head(t)>> \o LeadingDigits(Tail(t))
    ELSE <<>>

RECURSIVE DigitsValue(_, _)
DigitsValue(ds, acc) ==
    IF ds = <<>> THEN acc
    ELSE DigitsValue(Tail(ds), acc * Len(Digits) + DigitVal(Head(ds)))

\* parseInt(text): leading white space is skipped, one sign is taken, then
\* the longest run of digits; what follows the digits is ignored; NaN when
\* there is no digit
parseInt(t) ==
    LET s == TrimStart(t)
        signed == s # <<>> /\ Head(s) \in {"-", "+"}
        ds == LeadingDigits(IF signed THEN Tail(s) ELSE s)
        v == DigitsValue(ds, 0)
    IN  IF ds = <<>> THEN NaN
        ELSE IF signed /\ Head(s) = "-" THEN Num(0 - v) ELSE Num(v)

\* the texts of at most n characters over an alphabet
Texts(chars, n) == UNION {[1 .. k -> chars] : k \in 0 .. n}

\* the provider as the screens of the main flow find it: the user signed in
InitSignedIn ==
    /\ user = Me
    /\ userProfile = [uid |-> Me, dailyGoal |-> 2000]
    /\ loading = FALSE
    /\ authUser = Me
    /\ authReady = TRUE
    /\ pendingNotify = "idle"
    /\ secureStore = [kind |-> "pair", email |-> "a", password |-> "ok"]
    /\ restore = [pc |-> "done", outcome |-> "accepted"]
    /\ loginOp = [pc |-> "idle", cred |-> NoItem]
    /\ logoutOp = [pc |-> "idle"]
    /\ profileFetches = {}
    /\ authAlerts = 0
    /\ firstScreen = "main"
    /\ lastAuth = [kind |-> "login", cred |-> secureStore, thisProcess |-> FALSE]

InitHome ==
    /\ entries = <<>>
    /\ workouts = <<>>
    /\ totalCalories = 0
    /\ caloriesBurned = 0
    /\ homeRefreshing = FALSE
    /\ homeFetch = [f \in 1 .. MaxFetches |->
                       [pc |-> "idle", startOfDay |-> 0, endOfDay |-> 0, origin |-> None]]
    /\ homeDelete = NoDelete
    /\ homeAlerts = <<>>
    /\ homeRejections = 0

InitHistory ==
    /\ dayGroups = <<>>
    /\ hLoading = TRUE
    /\ refreshing = FALSE
    /\ hFetch = [f \in 1 .. MaxFetches |-> IdleFetch]
    /\ hDelete = NoDelete
    /\ hAlerts = <<>>
    /\ shown = [fetch |-> 0, input |-> <<>>, today |-> 0]
    /\ completed = <<>>

\* WORKOUT_TYPES (id and caloriesPerMin)
WORKOUT_TYPES ==
    << [id |-> "run", caloriesPerMin |-> 10],
       [id |-> "cycle", caloriesPerMin |-> 8],
       [id |-> "swim", caloriesPerMin |-> 9],
       [id |-> "weights", caloriesPerMin |-> 6],
       [id |-> "yoga", caloriesPerMin |-> 4],
       [id |-> "hiit", caloriesPerMin |-> 12] >>

\* analysisResult = null
NoAnalysis == [foodName |-> <<>>, calories |-> 0, confidence |-> None,
               description |-> <<>>]

\* handleSave is not running
NoSave == [pc |-> "idle", name |-> <<>>, calories |-> <<>>, notes |-> <<>>,
           photoUri |-> None, photoUrl |-> None]

\* no 'Finish Workout' alert is open
NoDialog == [open |-> FALSE, type |-> None, duration |-> 0, caloriesBurned |-> 0]

InitAddFood ==
    /\ photoUri = None
    /\ foodName = <<>>
    /\ calories = <<>>
    /\ notes = <<>>
    /\ saving = FALSE
    /\ analyzing = FALSE
    /\ analysisResult = NoAnalysis
    /\ analysis = [pc |-> "idle"]
    /\ afSave = NoSave
    /\ afAlerts = <<>>
    /\ afCalls = <<>>

InitSettings ==
    /\ goalInput = IF userProfile = NoProfile THEN ToText(2000)
                   ELSE ToText(userProfile.dailyGoal)
    /\ goalSaving = FALSE
    /\ goalOp = [pc |-> "idle", goal |-> 0]
    /\ goalAlerts = <<>>
    /\ goalCalls = 0
    /\ remoteGoal = userProfile.dailyGoal

InitWorkout ==
    /\ selectedWorkout = WORKOUT_TYPES[1].id
    /\ isTracking = FALSE
    /\ isPaused = FALSE
    /\ elapsedTime = 0
    /\ wCaloriesBurned = 0
    /\ timerRef = [active |-> FALSE, caloriesPerMin |-> 0]
    /\ stopDialog = NoDialog
    /\ wSave = [pc |-> "idle"]
    /\ wAlerts = <<>>

\* AIMode
Modes == {"doctor", "fitness"}

\* MODE_CONFIGS[m].greeting
Greeting(m) == <<"greeting", m>>

\* the initial messages: the greeting of each mode, not sent by the user
InitChat ==
    /\ mode = "fitness"
    /\ showModeSelector = FALSE
    /\ modeStates = [m \in Modes |->
                        [messages |-> << [text |-> Greeting(m), isUser |-> FALSE] >>,
                         chatHistory |-> <<>>]]
    /\ inputText = <<>>
    /\ isTyping = FALSE
    /\ chatReqs = <<>>
    /\ chatAlerts = 0

InitForms ==
    /\ InitAddFood
    /\ InitSettings
    /\ InitWorkout
    /\ InitChat

Init ==
    /\ now \in NowChoices
    /\ tz \in TzOffsets
    /\ \E docs \in DocSeqs(MaxRecords, now, FALSE) :
          /\ foodStore = OfType(docs, "food")
          /\ workoutStore = OfType(docs, "workout")
    /\ InitSignedIn
    /\ InitHistory
    /\ InitHome
    /\ InitForms

(***************************************************************************)
(* fetchHistory, one action per stretch between two awaits.                *)
(***************************************************************************)
\* lines 61-75: `if (!user) return`, thirtyDaysAgo, the food query is issued
FetchStart(f, origin) ==
    /\ hFetch[f].pc = "idle"
    /\ user # None
    /\ hFetch' = [hFetch EXCEPT ![f] =
                     [pc |-> "food",
                      thirtyDaysAgo |-> SetDateMinus(now, LookbackDays),
                      allEntries |-> <<>>,
                      origin |-> origin]]

\* lines 75-103: the food snapshot arrives, its documents are filtered and
\* pushed, the workout query is issued
FoodSnapshot(f) ==
    /\ hFetch[f].pc = "food"
    /\ hFetch' = [hFetch EXCEPT ![f].pc = "workout",
                                ![f].allEntries =
                                    FilterSnapshot(foodStore, user, hFetch[f].thirtyDaysAgo)]
    /\ UNCHANGED <<dayGroups, hLoading, shown, completed>>

\* mutant: a result is applied only if no later call of fetchHistory has
\* started (the stale-response fix the source does not have)
WorkoutSnapshot_LatestOnly(f) ==
    LET all == hFetch[f].allEntries
                 \o FilterSnapshot(workoutStore, user, hFetch[f].thirtyDaysAgo)
        latest == \A g \in (f + 1) .. MaxFetches : hFetch[g].pc = "idle"
    IN  /\ hFetch[f].pc = "workout"
        /\ dayGroups' = IF latest THEN BuildDayGroups(all, now) ELSE dayGroups
        /\ hLoading' = FALSE
        /\ hFetch' = [hFetch EXCEPT ![f].pc = "done", ![f].allEntries = all]
        /\ shown' = IF latest THEN [fetch |-> f, input |-> all, today |-> now] ELSE shown
        /\ completed' = Append(completed, f)

\* lines 103-157: the workout snapshot arrives; filter, sort, group,
\* setDayGroups, and (finally) setLoading(false)
WorkoutSnapshot(f) ==
    LET all == hFetch[f].allEntries
                 \o FilterSnapshot(workoutStore, user, hFetch[f].thirtyDaysAgo)
    IN  /\ hFetch[f].pc = "workout"
        /\ dayGroups' = BuildDayGroups(all, now)
        /\ hLoading' = FALSE
        /\ hFetch' = [hFetch EXCEPT ![f].pc = "done", ![f].allEntries = all]
        /\ shown' = [fetch |-> f, input |-> all, today |-> now]
        /\ completed' = Append(completed, f)

\* lines 153-157: a getDocs call rejects; catch logs, finally setLoading(false)
FetchFail(f) ==
    /\ hFetch[f].pc \in {"food", "workout"}
    /\ hFetch' = [hFetch EXCEPT ![f].pc = "failed"]
    /\ hLoading' = FALSE
    /\ UNCHANGED <<dayGroups, shown, completed>>

\* lines 160-162: useEffect(() => { fetchHistory(); }, [user]) on mount
MountFetch ==
    /\ \A f \in 1 .. MaxFetches : hFetch[f].pc = "idle"
    /\ FetchStart(1, "mount")
    /\ UNCHANGED <<dayGroups, hLoading, refreshing, hDelete, hAlerts, shown, completed>>
    /\ UNCHANGED <<envVars, authVars, homeVars, formVars>>

\* a call of fetchHistory resumes after an await; when the call that
\* onRefresh awaits returns, onRefresh goes on to setRefreshing(false)
\* (lines 164-168)
FetchStep(f) ==
    /\ \/ /\ FoodSnapshot(f)
          /\ UNCHANGED refreshing
       \/ /\ WorkoutSnapshot(f)
          /\ refreshing' = IF hFetch[f].origin = "refresh" THEN FALSE ELSE refreshing
       \/ /\ FetchFail(f)
          /\ refreshing' = IF hFetch[f].origin = "refresh" THEN FALSE ELSE refreshing
    /\ UNCHANGED <<hDelete, hAlerts>>
    /\ UNCHANGED <<envVars, authVars, homeVars, formVars>>

Next ==
    \/ MountFetch
    \/ FetchStep(1)

Spec == Init /\ [][Next]_vars

(***************************************************************************)
(* HistoryScreen's handlers: pull-to-refresh and delete.  Every call of    *)
(* fetchHistory takes the next slot, so a smaller slot started earlier.    *)
(***************************************************************************)
RECURSIVE SumSeq(_)
SumSeq(s) == IF s = <<>> THEN 0 ELSE Head(s) + SumSeq(Tail(s))

\* the entries on display, day by day
RECURSIVE Flatten(_)
Flatten(groups) ==
    IF groups = <<>> THEN <<>> ELSE Head(groups).entries \o Flatten(Tail(groups))

Count(s, e) == Cardinality({i \in 1 .. Len(s) : s[i] = e})

Range(s) == {s[i] : i \in 1 .. Len(s)}

IdleSlots == {f \in 1 .. MaxFetches : hFetch[f].pc = "idle"}

NextSlot == CHOOSE f \in IdleSlots : \A g \in IdleSlots : f <= g

\* a delete that awaits deleteDoc will call fetchHistory when it resolves
SlotsSpoken == IF hDelete.pc = "deleting" THEN 1 ELSE 0

\* lines 164-166: onRefresh; RefreshControl offers it while not refreshing
Refresh ==
    /\ ~refreshing
    /\ hFetch[1].pc # "idle"
    /\ Cardinality(IdleSlots) > SlotsSpoken
    /\ refreshing' = TRUE
    /\ FetchStart(NextSlot, "refresh")
    /\ UNCHANGED <<dayGroups, hLoading, hDelete, hAlerts, shown, completed>>
    /\ UNCHANGED <<envVars, authVars, homeVars, formVars>>

\* lines 193-206: long press on a displayed entry, then 'Delete' in the
\* confirmation alert: deleteDoc is issued
DeleteConfirm(entry) ==
    /\ hDelete.pc # "deleting"
    /\ entry \in Range(Flatten(dayGroups))
    /\ Cardinality(IdleSlots) > 0
    /\ Len(hAlerts) < MaxAlerts
    /\ hDelete' = [pc |-> "deleting", entry |-> entry]
    /\ UNCHANGED <<dayGroups, hLoading, refreshing, hFetch, hAlerts, shown, completed>>
    /\ UNCHANGED <<envVars, authVars, homeVars, formVars>>

RemoveDoc(docs, id) == SelectSeq(docs, LAMBDA d : d.id # id)

\* lines 208-209: deleteDoc resolves, the document is gone, fetchHistory is
\* called again
DeleteResolve ==
    /\ hDelete.pc = "deleting"
    /\ IF hDelete.entry.type = "workout"
       THEN /\ workoutStore' = RemoveDoc(workoutStore, hDelete.entry.id)
            /\ UNCHANGED foodStore
       ELSE /\ foodStore' = RemoveDoc(foodStore, hDelete.entry.id)
            /\ UNCHANGED workoutStore
    /\ hDelete' = [pc |-> "deleted", entry |-> hDelete.entry]
    /\ FetchStart(NextSlot, "delete")
    /\ UNCHANGED <<dayGroups, hLoading, refreshing, hAlerts, shown, completed>>
    /\ UNCHANGED <<now, tz, authVars, homeVars, formVars>>

\* lines 210-213: deleteDoc rejects; the error is logged and the alert
\* 'Failed to delete entry' is shown
DeleteReject ==
    /\ hDelete.pc = "deleting"
    /\ hDelete' = [pc |-> "failed", entry |-> hDelete.entry]
    /\ hAlerts' = Append(hAlerts, "Failed to delete entry")
    /\ UNCHANGED <<dayGroups, hLoading, refreshing, hFetch, shown, completed>>
    /\ UNCHANGED <<envVars, authVars, homeVars, formVars>>

InitHistoryRace ==
    /\ now = BaseDay * DayLen
    /\ tz = 0
    /\ \E docs \in DocSeqs(MaxFewRecords, now, TRUE) :
          /\ foodStore = OfType(docs, "food")
          /\ workoutStore = OfType(docs, "workout")
    /\ InitSignedIn
    /\ InitHistory
    /\ InitHome
    /\ InitForms

NextHistory ==
    \/ MountFetch
    \/ \E f \in 1 .. MaxFetches : FetchStep(f)
    \/ Refresh
    \/ \E entry \in Range(Flatten(dayGroups)) : DeleteConfirm(entry)
    \/ DeleteResolve
    \/ DeleteReject

SpecHistory == InitHistoryRace /\ [][NextHistory]_vars

\* C7: once a fetch has completed, dayGroups is the result of the fetch that
\* completed last, whatever the order in which the fetches were started.
C7_LastCompletedFetchWins ==
    completed # <<>> =>
        dayGroups = BuildDayGroups(hFetch[completed[Len(completed)]].allEntries, now)

\* two fetches were in flight together, the one started first read the food
\* collection before a delete and completed last: the deleted entry is
\* displayed, though the later fetch had read the store without it
C7_Witness ==
    /\ Len(completed) >= 2
    /\ completed[Len(completed)] < completed[Len(completed) - 1]
    /\ hDelete.pc = "deleted"
    /\ hDelete.entry \in Range(Flatten(dayGroups))
    /\ hDelete.entry \notin Range(hFetch[completed[Len(completed) - 1]].allEntries)
    /\ \A f \in 1 .. MaxFetches : hFetch[f].pc \in {"idle", "done"}

(***************************************************************************)
(* HomeScreen: fetchTodayEntries and the long-press deletes.               *)
(***************************************************************************)
\* getTodayRange: new Date(y, m, d) is local midnight of the day of `now`
StartOfDay(t) == LocalDay(t, tz) * DayLen - tz

EndOfDay(t) == StartOfDay(t) + DayLen

RECURSIVE SelectToday(_, _, _, _)
SelectToday(docs, owner, startOfDay, endOfDay) ==
    IF docs = <<>> THEN <<>>
    ELSE LET d == Head(docs)
             rest == SelectToday(Tail(docs), owner, startOfDay, endOfDay)
         IN  IF d.userId = owner /\ d.timestamp >= startOfDay /\ d.timestamp < endOfDay
             THEN <<d>> \o rest
             ELSE rest

HomeIdleFetch == [pc |-> "idle", startOfDay |-> 0, endOfDay |-> 0, origin |-> None]

HomeIdleSlots == {f \in 1 .. MaxFetches : homeFetch[f].pc = "idle"}

HomeNextSlot == CHOOSE f \in HomeIdleSlots : \A g \in HomeIdleSlots : f <= g

HomeSlotsSpoken == IF homeDelete.pc = "deleting" THEN 1 ELSE 0

\* lines 289-302: `if (!user) return`, the range of today, the food query
HomeFetchStart(f, origin) ==
    /\ homeFetch[f].pc = "idle"
    /\ user # None
    /\ homeFetch' = [homeFetch EXCEPT ![f] =
                        [pc |-> "food", startOfDay |-> StartOfDay(now),
                         endOfDay |-> EndOfDay(now), origin |-> origin]]

\* lines 302-336: the food snapshot arrives: setEntries, setTotalCalories,
\* then the workout query is issued
HomeFoodSnapshot(f) ==
    LET fetched == SelectToday(foodStore, user, homeFetch[f].startOfDay,
                               homeFetch[f].endOfDay)
    IN  /\ homeFetch[f].pc = "food"
        /\ entries' = SortEntries(fetched)
        /\ totalCalories' = SumSeq([i \in 1 .. Len(fetched) |-> fetched[i].calories])
        /\ homeFetch' = [homeFetch EXCEPT ![f].pc = "workout"]
        /\ UNCHANGED <<workouts, caloriesBurned>>

\* lines 336-359: the workout snapshot arrives: setWorkouts, setCaloriesBurned
HomeWorkoutSnapshot(f) ==
    LET fetched == SelectToday(workoutStore, user, homeFetch[f].startOfDay,
                               homeFetch[f].endOfDay)
    IN  /\ homeFetch[f].pc = "workout"
        /\ workouts' = SortEntries(fetched)
        /\ caloriesBurned' =
               SumSeq([i \in 1 .. Len(fetched) |-> fetched[i].caloriesBurned])
        /\ homeFetch' = [homeFetch EXCEPT ![f].pc = "done"]
        /\ UNCHANGED <<entries, totalCalories>>

\* lines 360-362: a getDocs call rejects; the error is logged
HomeFetchFail(f) ==
    /\ homeFetch[f].pc \in {"food", "workout"}
    /\ homeFetch' = [homeFetch EXCEPT ![f].pc = "failed"]
    /\ UNCHANGED <<entries, totalCalories, workouts, caloriesBurned>>

\* a call of fetchTodayEntries resumes after an await; onRefresh (lines
\* 371-375) goes on to setRefreshing(false) when its call returns
HomeFetchStep(f) ==
    /\ \/ /\ HomeFoodSnapshot(f)
          /\ UNCHANGED homeRefreshing
       \/ /\ HomeWorkoutSnapshot(f)
          /\ homeRefreshing' =
                 IF homeFetch[f].origin = "refresh" THEN FALSE ELSE homeRefreshing
       \/ /\ HomeFetchFail(f)
          /\ homeRefreshing' =
                 IF homeFetch[f].origin = "refresh" THEN FALSE ELSE homeRefreshing
    /\ UNCHANGED <<homeDelete, homeAlerts, homeRejections>>
    /\ UNCHANGED <<envVars, authVars, historyVars, formVars>>

\* lines 365-369: useFocusEffect calls fetchTodayEntries when the screen
\* gains focus
HomeFocus ==
    /\ Cardinality(HomeIdleSlots) > HomeSlotsSpoken
    /\ HomeFetchStart(HomeNextSlot, "focus")
    /\ UNCHANGED <<entries, totalCalories, workouts, caloriesBurned, homeRefreshing,
                   homeDelete, homeAlerts, homeRejections>>
    /\ UNCHANGED <<envVars, authVars, historyVars, formVars>>

\* lines 371-373: onRefresh
HomeRefresh ==
    /\ ~homeRefreshing
    /\ Cardinality(HomeIdleSlots) > HomeSlotsSpoken
    /\ homeRefreshing' = TRUE
    /\ HomeFetchStart(HomeNextSlot, "refresh")
    /\ UNCHANGED <<entries, totalCalories, workouts, caloriesBurned,
                   homeDelete, homeAlerts, homeRejections>>
    /\ UNCHANGED <<envVars, authVars, historyVars, formVars>>

\* lines 496-503 and 526-533: long press on a listed workout or food entry,
\* then 'Delete' in the confirmation alert: deleteDoc is issued
HomeDeleteConfirm(item) ==
    /\ homeDelete.pc # "deleting"
    /\ item \in Range(workouts) \cup Range(entries)
    /\ Cardinality(HomeIdleSlots) > 0
    /\ homeRejections < MaxAlerts
    /\ homeDelete' = [pc |-> "deleting", entry |-> item]
    /\ UNCHANGED <<entries, totalCalories, workouts, caloriesBurned, homeRefreshing,
                   homeFetch, homeAlerts, homeRejections>>
    /\ UNCHANGED <<envVars, authVars, historyVars, formVars>>

\* lines 503-504 and 533-534: deleteDoc resolves, fetchTodayEntries is called
HomeDeleteResolve ==
    /\ homeDelete.pc = "deleting"
    /\ IF homeDelete.entry.type = "workout"
       THEN /\ workoutStore' = RemoveDoc(workoutStore, homeDelete.entry.id)
            /\ UNCHANGED foodStore
       ELSE /\ foodStore' = RemoveDoc(foodStore, homeDelete.entry.id)
            /\ UNCHANGED workoutStore
    /\ homeDelete' = [pc |-> "deleted", entry |-> homeDelete.entry]
    /\ HomeFetchStart(HomeNextSlot, "delete")
    /\ UNCHANGED <<entries, totalCalories, workouts, caloriesBurned, homeRefreshing,
                   homeAlerts, homeRejections>>
    /\ UNCHANGED <<now, tz, authVars, historyVars, formVars>>

\* lines 502-505 and 532-535: deleteDoc rejects inside the async onPress,
\* which has no try/catch: the handler's promise is rejected and nothing
\* handles it; no alert, no refetch
HomeDeleteReject ==
    /\ homeDelete.pc = "deleting"
    /\ homeDelete' = [pc |-> "failed", entry |-> homeDelete.entry]
    /\ homeRejections' = homeRejections + 1
    /\ UNCHANGED <<entries, totalCalories, workouts, caloriesBurned, homeRefreshing,
                   homeFetch, homeAlerts>>
    /\ UNCHANGED <<envVars, authVars, historyVars, formVars>>

InitHomeRace ==
    /\ now = BaseDay * DayLen
    /\ tz = 0
    /\ \E docs \in DocSeqs(MaxFewRecords, now, TRUE) :
          /\ foodStore = OfType(docs, "food")
          /\ workoutStore = OfType(docs, "workout")
    /\ InitSignedIn
    /\ InitHistory
    /\ InitHome
    /\ InitForms

NextHome ==
    \/ HomeFocus
    \/ \E f \in 1 .. MaxFetches : HomeFetchStep(f)
    \/ HomeRefresh
    \/ \E item \in Range(workouts) \cup Range(entries) : HomeDeleteConfirm(item)
    \/ HomeDeleteResolve
    \/ HomeDeleteReject

SpecHome == InitHomeRace /\ [][NextHome]_vars

\* C10 (as claimed): a delete that fails shows an alert and changes neither
\* the displayed list nor the fetches in flight (no removal, no refetch), on
\* the History screen and on the Home screen.
C10_FailedDeleteAlertsAndKeepsList ==
    [][ /\ (hDelete.pc = "deleting" /\ hDelete'.pc = "failed") =>
              /\ hAlerts' = Append(hAlerts, "Failed to delete entry")
              /\ dayGroups' = dayGroups
              /\ hFetch' = hFetch
        /\ (homeDelete.pc = "deleting" /\ homeDelete'.pc = "failed") =>
              /\ Len(homeAlerts') = Len(homeAlerts) + 1
              /\ entries' = entries
              /\ workouts' = workouts
              /\ homeFetch' = homeFetch ]_vars

\* the part of C10 that the code keeps: on the History screen a failed
\* delete shows the alert and leaves dayGroups and the fetches alone; on the
\* Home screen it leaves the lists and the fetches alone
HistoryFailedDeleteAlerts ==
    [][ (hDelete.pc = "deleting" /\ hDelete'.pc = "failed") =>
              /\ hAlerts' = Append(hAlerts, "Failed to delete entry")
              /\ dayGroups' = dayGroups
              /\ hFetch' = hFetch ]_vars

HomeFailedDeleteKeepsList ==
    [][ (homeDelete.pc = "deleting" /\ homeDelete'.pc = "failed") =>
              /\ entries' = entries
              /\ workouts' = workouts
              /\ homeFetch' = homeFetch ]_vars

(***************************************************************************)
(* AuthProvider.  The auth service (firebase/auth, in-memory persistence:  *)
(* no user at process start) calls the onAuthStateChanged listener once    *)
(* with the current user after it is initialised, and again whenever the   *)
(* current user changes; the call that follows a sign-in or sign-out is    *)
(* made before the promise of signInWithEmailAndPassword or signOut        *)
(* resolves.  pendingNotify holds the state of such a call that is due:    *)
(* nothing else runs before it.                                            *)
(***************************************************************************)
Creds == {Pair("a", "ok"), Pair("a", "old"), Pair("b", "ok")}

\* the account the service signs a credential pair in to, None if it
\* rejects the pair
UidOf(cred) ==
    IF cred.kind # "pair" \/ cred.password # "ok" THEN None
    ELSE IF cred.email = "a" THEN Me ELSE Other

\* what SecureStore can hold at process start: nothing, a pair that login
\* wrote, or text that JSON.parse rejects
StoredChoices == {NoItem, CorruptItem} \cup Creds

\* AppNavigator, lines 227-244
AppNavigator(isLoading, u) ==
    IF isLoading THEN "loading" ELSE IF u # None THEN "main" ELSE "login"

Quiet == pendingNotify = "idle"

InitAuth ==
    /\ user = None
    /\ userProfile = NoProfile
    /\ loading = TRUE
    /\ authUser = None
    /\ authReady = FALSE
    /\ pendingNotify = "idle"
    /\ secureStore \in StoredChoices
    /\ restore = [pc |-> "getItem", outcome |-> None]
    /\ loginOp = [pc |-> "idle", cred |-> NoItem]
    /\ logoutOp = [pc |-> "idle"]
    /\ profileFetches = {}
    /\ authAlerts = 0
    /\ firstScreen = None
    /\ lastAuth = IF secureStore \in Creds
                  THEN [kind |-> "login", cred |-> secureStore, thisProcess |-> FALSE]
                  ELSE [kind |-> "none", cred |-> NoItem, thisProcess |-> FALSE]

\* lines 541-555, first call: the listener is called with the current user
\* once the service is initialised
ListenerFirstCall ==
    /\ ~authReady
    /\ authReady' = TRUE
    /\ user' = authUser
    /\ IF authUser # None
       THEN /\ profileFetches' = profileFetches \cup {authUser}
            /\ UNCHANGED userProfile
       ELSE /\ userProfile' = NoProfile
            /\ UNCHANGED profileFetches
    /\ UNCHANGED <<loading, authUser, pendingNotify, secureStore, restore, loginOp,
                   logoutOp, authAlerts, firstScreen>>
    /\ UNCHANGED <<envVars, historyVars, homeVars, formVars, lastAuth>>

\* lines 541-555: the listener is called after a change of the current
\* user: setUser, then getDoc of the profile is issued or the profile is
\* cleared
Listener ==
    /\ authReady
    /\ pendingNotify # "idle"
    /\ user' = pendingNotify
    /\ IF pendingNotify # None
       THEN /\ profileFetches' = profileFetches \cup {pendingNotify}
            /\ UNCHANGED userProfile
       ELSE /\ userProfile' = NoProfile
            /\ UNCHANGED profileFetches
    /\ pendingNotify' = "idle"
    /\ UNCHANGED <<loading, authUser, authReady, secureStore, restore, loginOp,
                   logoutOp, authAlerts, firstScreen>>
    /\ UNCHANGED <<envVars, historyVars, homeVars, formVars, lastAuth>>

\* lines 545-551: getDoc of the profile resolves with a document, resolves
\* with none, or rejects
ProfileFetched(uid) ==
    /\ Quiet
    /\ uid \in profileFetches
    /\ profileFetches' = profileFetches \ {uid}
    /\ \/ userProfile' = [uid |-> uid, dailyGoal |-> 2000]
       \/ UNCHANGED userProfile
    /\ UNCHANGED <<user, loading, authUser, authReady, pendingNotify, secureStore,
                   restore, loginOp, logoutOp, authAlerts, firstScreen>>
    /\ UNCHANGED <<envVars, historyVars, homeVars, formVars, lastAuth>>

\* restoreSession ends: setLoading(false) (line 537); AppNavigator renders
\* its first screen other than the loading screen
RestoreEnds(outcome) ==
    /\ restore' = [pc |-> "done", outcome |-> outcome]
    /\ loading' = FALSE
    /\ firstScreen' = AppNavigator(FALSE, user)

\* mutant: setLoading(false) sits inside the try block, after the sign-in:
\* an exception skips it
RestoreGetItem_LoadingInTry ==
    /\ Quiet
    /\ restore.pc = "getItem"
    /\ \/ /\ secureStore = NoItem
          /\ RestoreEnds("none stored")
       \/ /\ restore' = [pc |-> "done", outcome |-> "store failed"]
          /\ UNCHANGED <<loading, firstScreen>>
       \/ /\ secureStore = CorruptItem
          /\ restore' = [pc |-> "done", outcome |-> "unparsable"]
          /\ UNCHANGED <<loading, firstScreen>>
       \/ /\ secureStore \in Creds
          /\ restore' = [pc |-> "signIn", outcome |-> None]
          /\ UNCHANGED <<loading, firstScreen>>
    /\ UNCHANGED <<user, userProfile, authUser, authReady, pendingNotify, secureStore,
                   loginOp, logoutOp, profileFetches, authAlerts>>
    /\ UNCHANGED <<envVars, historyVars, homeVars, formVars, lastAuth>>

\* lines 527-537: SecureStore.getItemAsync resolves or rejects; nothing
\* stored, text that JSON.parse rejects, or a pair with which
\* signInWithEmailAndPassword is called
RestoreGetItem ==
    /\ Quiet
    /\ restore.pc = "getItem"
    /\ \/ /\ secureStore = NoItem
          /\ RestoreEnds("none stored")
       \/ RestoreEnds("store failed")
       \/ /\ secureStore = CorruptItem
          /\ RestoreEnds("unparsable")
       \/ /\ secureStore \in Creds
          /\ restore' = [pc |-> "signIn", outcome |-> None]
          /\ UNCHANGED <<loading, firstScreen>>
    /\ UNCHANGED <<user, userProfile, authUser, authReady, pendingNotify, secureStore,
                   loginOp, logoutOp, profileFetches, authAlerts>>
    /\ UNCHANGED <<envVars, historyVars, homeVars, formVars, lastAuth>>

\* the service accepts a sign-in: currentUser is set and the listener is
\* due, before the promise resolves
SignedIn(uid) ==
    /\ authUser' = uid
    /\ pendingNotify' = IF uid # authUser THEN uid ELSE pendingNotify

\* mutant: setLoading(false) does not wait for the sign-in (a missing await)
RestoreSignIn_NoAwait ==
    /\ Quiet
    /\ authReady
    /\ restore.pc = "signIn"
    /\ \/ /\ UidOf(secureStore) # None
          /\ SignedIn(UidOf(secureStore))
          /\ RestoreEnds("accepted")
       \/ /\ RestoreEnds("rejected")
          /\ UNCHANGED <<authUser, pendingNotify>>
    /\ UNCHANGED <<user, userProfile, authReady, secureStore, loginOp, logoutOp,
                   profileFetches, authAlerts>>
    /\ UNCHANGED <<envVars, historyVars, homeVars, formVars, lastAuth>>

\* mutant: a rejected replay starts restoreSession over
RestoreSignIn_StartsOver ==
    /\ Quiet
    /\ authReady
    /\ restore.pc = "signIn"
    /\ \/ /\ UidOf(secureStore) # None
          /\ SignedIn(UidOf(secureStore))
          /\ restore' = [pc |-> "resolving", outcome |-> None]
       \/ /\ restore' = [pc |-> "getItem", outcome |-> None]
          /\ UNCHANGED <<authUser, pendingNotify>>
    /\ UNCHANGED <<user, userProfile, loading, firstScreen, authReady, secureStore,
                   loginOp, logoutOp, profileFetches, authAlerts>>
    /\ UNCHANGED <<envVars, historyVars, homeVars, formVars, lastAuth>>

\* line 531: the replayed sign-in, which the service takes up once it is
\* initialised, is accepted, or it is rejected (wrong pair, no network) and
\* the catch block logs it (lines 533-537)
RestoreSignIn ==
    /\ Quiet
    /\ authReady
    /\ restore.pc = "signIn"
    /\ \/ /\ UidOf(secureStore) # None
          /\ SignedIn(UidOf(secureStore))
          /\ restore' = [pc |-> "resolving", outcome |-> None]
          /\ UNCHANGED <<loading, firstScreen>>
       \/ /\ RestoreEnds("rejected")
          /\ UNCHANGED <<authUser, pendingNotify>>
    /\ UNCHANGED <<user, userProfile, authReady, secureStore, loginOp, logoutOp,
                   profileFetches, authAlerts>>
    /\ UNCHANGED <<envVars, historyVars, homeVars, formVars, lastAuth>>

\* lines 531-537: the promise of the accepted sign-in resolves
RestoreResolved ==
    /\ Quiet
    /\ restore.pc = "resolving"
    /\ RestoreEnds("accepted")
    /\ UNCHANGED <<user, userProfile, authUser, authReady, pendingNotify, secureStore,
                   loginOp, logoutOp, profileFetches, authAlerts>>
    /\ UNCHANGED <<envVars, historyVars, homeVars, formVars, lastAuth>>

\* LoginScreen.handleLogin -> login (lines 562-563): offered by the login
\* flow, which AppNavigator renders when not loading and user is null
LoginStart(cred) ==
    /\ Quiet
    /\ AppNavigator(loading, user) = "login"
    /\ loginOp.pc = "idle"
    /\ authAlerts < MaxAlerts
    /\ loginOp' = [pc |-> "signIn", cred |-> cred]
    /\ UNCHANGED <<user, userProfile, loading, authUser, authReady, pendingNotify,
                   secureStore, restore, logoutOp, profileFetches, authAlerts,
                   firstScreen>>
    /\ UNCHANGED <<envVars, historyVars, homeVars, formVars, lastAuth>>

\* line 563: the sign-in is accepted, or rejected (handleLogin alerts)
LoginSignIn ==
    /\ Quiet
    /\ loginOp.pc = "signIn"
    /\ \/ /\ UidOf(loginOp.cred) # None
          /\ SignedIn(UidOf(loginOp.cred))
          /\ loginOp' = [loginOp EXCEPT !.pc = "resolving"]
          /\ UNCHANGED authAlerts
       \/ /\ loginOp' = [pc |-> "idle", cred |-> NoItem]
          /\ authAlerts' = authAlerts + 1
          /\ UNCHANGED <<authUser, pendingNotify>>
    /\ UNCHANGED <<user, userProfile, loading, authReady, secureStore, restore,
                   logoutOp, profileFetches, firstScreen>>
    /\ UNCHANGED <<envVars, historyVars, homeVars, formVars, lastAuth>>

\* lines 565-568: the promise resolves, SecureStore.setItemAsync is called
LoginResolved ==
    /\ Quiet
    /\ loginOp.pc = "resolving"
    /\ loginOp' = [loginOp EXCEPT !.pc = "setItem"]
    /\ UNCHANGED <<user, userProfile, loading, authUser, authReady, pendingNotify,
                   secureStore, restore, logoutOp, profileFetches, authAlerts,
                   firstScreen>>
    /\ UNCHANGED <<envVars, historyVars, homeVars, formVars, lastAuth>>

\* lines 565-568: setItemAsync stores the pair, or rejects (handleLogin
\* alerts)
LoginSetItem ==
    /\ Quiet
    /\ loginOp.pc = "setItem"
    /\ \/ /\ secureStore' = loginOp.cred
          /\ lastAuth' = [kind |-> "login", cred |-> loginOp.cred, thisProcess |-> TRUE]
          /\ UNCHANGED authAlerts
       \/ /\ authAlerts < MaxAlerts
          /\ authAlerts' = authAlerts + 1
          /\ UNCHANGED <<secureStore, lastAuth>>
    /\ loginOp' = [pc |-> "idle", cred |-> NoItem]
    /\ UNCHANGED <<user, userProfile, loading, authUser, authReady, pendingNotify,
                   restore, logoutOp, profileFetches, firstScreen>>
    /\ UNCHANGED <<envVars, historyVars, homeVars, formVars>>

\* SettingsScreen.handleLogout -> logout (lines 589-590): offered by the
\* main flow; signOut is called
LogoutStart ==
    /\ Quiet
    /\ AppNavigator(loading, user) = "main"
    /\ logoutOp.pc = "idle"
    /\ logoutOp' = [pc |-> "signOut"]
    /\ UNCHANGED <<user, userProfile, loading, authUser, authReady, pendingNotify,
                   secureStore, restore, loginOp, profileFetches, authAlerts,
                   firstScreen>>
    /\ UNCHANGED <<envVars, historyVars, homeVars, formVars, lastAuth>>

\* line 590: signOut clears the current user (the listener is due), or
\* rejects, which nothing catches
LogoutSignOut ==
    /\ Quiet
    /\ logoutOp.pc = "signOut"
    /\ \/ /\ authUser' = None
          /\ pendingNotify' = IF authUser # None THEN None ELSE pendingNotify
          /\ logoutOp' = [pc |-> "deleteItem"]
       \/ /\ logoutOp' = [pc |-> "idle"]
          /\ UNCHANGED <<authUser, pendingNotify>>
    /\ UNCHANGED <<user, userProfile, loading, authReady, secureStore, restore,
                   loginOp, profileFetches, authAlerts, firstScreen>>
    /\ UNCHANGED <<envVars, historyVars, homeVars, formVars, lastAuth>>

\* mutant: logout without the deleteItemAsync of line 591
LogoutDeleteItem_KeepsItem ==
    /\ Quiet
    /\ logoutOp.pc = "deleteItem"
    /\ userProfile' = NoProfile
    /\ lastAuth' = [kind |-> "logout", cred |-> NoItem, thisProcess |-> TRUE]
    /\ logoutOp' = [pc |-> "idle"]
    /\ UNCHANGED <<user, loading, authUser, authReady, pendingNotify, restore,
                   loginOp, profileFetches, authAlerts, firstScreen, secureStore>>
    /\ UNCHANGED <<envVars, historyVars, homeVars, formVars>>

\* lines 591-592: deleteItemAsync removes the pair and setUserProfile(null)
\* follows, or it rejects, which nothing catches
LogoutDeleteItem ==
    /\ Quiet
    /\ logoutOp.pc = "deleteItem"
    /\ \/ /\ secureStore' = NoItem
          /\ userProfile' = NoProfile
          /\ lastAuth' = [kind |-> "logout", cred |-> NoItem, thisProcess |-> TRUE]
       \/ UNCHANGED <<secureStore, userProfile, lastAuth>>
    /\ logoutOp' = [pc |-> "idle"]
    /\ UNCHANGED <<user, loading, authUser, authReady, pendingNotify, restore,
                   loginOp, profileFetches, authAlerts, firstScreen>>
    /\ UNCHANGED <<envVars, historyVars, homeVars, formVars>>

InitAuthStart ==
    /\ now = BaseDay * DayLen
    /\ tz = 0
    /\ foodStore = <<>>
    /\ workoutStore = <<>>
    /\ InitAuth
    /\ InitHistory
    /\ InitHome
    /\ InitForms

RestoreStep ==
    \/ ListenerFirstCall
    \/ Listener
    \/ RestoreGetItem
    \/ RestoreSignIn
    \/ RestoreResolved

NextAuth ==
    \/ ListenerFirstCall
    \/ Listener
    \/ RestoreGetItem
    \/ RestoreSignIn
    \/ RestoreResolved
    \/ \E uid \in {Me, Other} : ProfileFetched(uid)
    \/ \E cred \in Creds : LoginStart(cred)
    \/ LoginSignIn
    \/ LoginResolved
    \/ LoginSetItem
    \/ LogoutStart
    \/ LogoutSignOut
    \/ LogoutDeleteItem

SpecAuth == InitAuthStart /\ [][NextAuth]_vars

\* every call to the secure store and to the auth service that
\* restoreSession awaits resolves or rejects, and the listener is called
\* when it is due
SpecAuthFair == SpecAuth /\ WF_vars(RestoreStep)

\* C8: while the restore is pending only the loading screen is rendered;
\* when loading ends after an accepted replay, user is set and the first
\* screen is the main flow; after a failed replay or with nothing usable
\* stored, it is the login flow with user null.
C8_FirstScreenFollowsRestore ==
    /\ (restore.pc # "done") => AppNavigator(loading, user) = "loading"
    /\ (restore.pc = "done") => firstScreen # None
    /\ (restore.outcome = "accepted") => firstScreen = "main"
    /\ (restore.outcome \in {"rejected", "none stored", "unparsable", "store failed"})
           => firstScreen = "login"
    /\ (firstScreen = "main") => restore.outcome = "accepted"

\* the replay of a stored pair was accepted and loading has just ended
C8_Witness ==
    /\ restore = [pc |-> "done", outcome |-> "accepted"]
    /\ secureStore \in Creds
    /\ ~loading
    /\ user = UidOf(secureStore)
    /\ firstScreen = "main"

\* C9: in every outcome of the restore, loading becomes false, given that
\* the awaited calls resolve or reject; and it never becomes true again.
C9_LoadingEndsForGood ==
    /\ <>[](loading = FALSE)
    /\ [][loading = FALSE => loading' = FALSE]_vars

\* the restore ended on one of its failing paths and loading is false
C9_Witness ==
    /\ restore.pc = "done"
    /\ restore.outcome \in {"rejected", "unparsable", "store failed"}
    /\ loading = FALSE

(***************************************************************************)
(* Properties of fetchHistory's grouping (specification Spec).  `shown`    *)
(* records the filtered, still unsorted allEntries and the clock from      *)
(* which the displayed dayGroups were built.                               *)
(***************************************************************************)
SumOver(s, F(_)) == SumSeq([i \in 1 .. Len(s) |-> F(s[i])])

FoodCalories(e) == IF e.type = "food" THEN e.calories ELSE 0

WorkoutBurned(e) == IF e.type = "workout" THEN e.caloriesBurned ELSE 0

GroupCalories(g) == g.totalCalories

GroupBurned(g) == g.totalBurned

\* C1: the groups' totalCalories add up to the calories of the filtered food
\* records and their totalBurned to the caloriesBurned of the filtered
\* workouts, group by group as well: a food record adds nothing to
\* totalBurned, a workout nothing to totalCalories.
C1_TotalsAreExactSums ==
    /\ SumOver(dayGroups, GroupCalories) = SumOver(shown.input, FoodCalories)
    /\ SumOver(dayGroups, GroupBurned) = SumOver(shown.input, WorkoutBurned)
    /\ \A i \in 1 .. Len(dayGroups) :
          /\ dayGroups[i].totalCalories = SumOver(dayGroups[i].entries, FoodCalories)
          /\ dayGroups[i].totalBurned = SumOver(dayGroups[i].entries, WorkoutBurned)

\* a fetch has grouped a food entry and a workout of the same day, and a
\* second food entry
C1_Witness ==
    /\ shown.fetch # 0
    /\ \E i \in 1 .. Len(dayGroups) :
          /\ dayGroups[i].totalCalories > 0
          /\ dayGroups[i].totalBurned > 0
    /\ Cardinality({e \in Range(shown.input) : e.type = "food"}) >= 2

\* C2: every filtered record is in the entries of exactly one group, once,
\* and the groups hold nothing else.
C2_EveryRecordExactlyOnce ==
    /\ \A e \in Range(shown.input) : Count(Flatten(dayGroups), e) = 1
    /\ Range(Flatten(dayGroups)) \subseteq Range(shown.input)
    /\ Len(Flatten(dayGroups)) = Len(shown.input)

\* three records were grouped into two groups
C2_Witness ==
    /\ shown.fetch # 0
    /\ Len(shown.input) = 3
    /\ Len(dayGroups) = 2

\* C3 (as claimed): a group's key is the local calendar date of each of its
\* records.
C3_KeyIsLocalDate ==
    \A i \in 1 .. Len(dayGroups) :
        \A e \in Range(dayGroups[i].entries) :
            dayGroups[i].date = LocalDay(e.timestamp, tz)

\* C4 (as claimed): there are as many groups as distinct local calendar
\* dates among the filtered records (none for the empty input).
C4_GroupsCountLocalDates ==
    Len(dayGroups) = Cardinality({LocalDay(e.timestamp, tz) : e \in Range(shown.input)})

\* C5: the groups are in strictly descending order of their key, and the
\* entries of a group in non-increasing order of timestamp.
C5_GroupsAndEntriesDescending ==
    /\ \A i \in 1 .. Len(dayGroups) - 1 : dayGroups[i].date > dayGroups[i + 1].date
    /\ \A i \in 1 .. Len(dayGroups) :
          \A j \in 1 .. Len(dayGroups[i].entries) - 1 :
              dayGroups[i].entries[j].timestamp >= dayGroups[i].entries[j + 1].timestamp

\* the snapshots arrived oldest first: two groups, one of them with two
\* entries of different timestamps
C5_Witness ==
    /\ shown.fetch # 0
    /\ Len(dayGroups) = 2
    /\ Len(shown.input) = 3
    /\ shown.input[1].timestamp < shown.input[2].timestamp
    /\ shown.input[2].timestamp < shown.input[3].timestamp

\* C6 (as claimed): a record of the local day of "now" is under "Today", one
\* of the local day before under "Yesterday", one of 8 local days before
\* under a weekday/month/day label.
C6_DisplayDateByLocalDay ==
    \A i \in 1 .. Len(dayGroups) :
        \A e \in Range(dayGroups[i].entries) :
            LET age == LocalDay(shown.today, tz) - LocalDay(e.timestamp, tz)
            IN  /\ (age = 0) => dayGroups[i].displayDate = <<"Today">>
                /\ (age = 1) => dayGroups[i].displayDate = <<"Yesterday">>
                /\ (age = 8) => dayGroups[i].displayDate[1] = "WeekdayMonthDay"

(***************************************************************************)
(* analyzeFoodImage and AddFoodScreen.analyzePhoto.  A response of the     *)
(* endpoint is: whether fetch resolved, whether the status is OK, whether  *)
(* the body is JSON, whether it has a `choices` array, and the content of  *)
(* the first choice's message; the content is given by what JSON.parse     *)
(* makes of it.  A word that is never taken apart stands as one character. *)
(***************************************************************************)
UnknownFood == <<"Unknown Food">>

Pizza == <<"Pizza">>

\* a content that JSON.parse rejects (the empty content included)
InvalidContent == [kind |-> "invalid", foodName |-> <<>>, calories |-> <<>>,
                   confidence |-> None, description |-> <<>>]

\* the content `null`: valid JSON, and reading a property of it throws
NullContent == [kind |-> "null", foodName |-> <<>>, calories |-> <<>>,
                confidence |-> None, description |-> <<>>]

\* the contents that are JSON objects: a field that is missing or empty
\* is <<>> (None for confidence); calories is given by its text, as
\* parseInt takes it
ObjectContents ==
    [kind : {"object"},
     foodName : {<<>>, Pizza, UnknownFood},
     calories : {<<"1", "2">>, <<"1", "2", ".", "7">>, <<"-", "1">>, <<"0">>, <<"a">>},
     confidence : {None, "high"},
     description : {<<>>, <<"d">>}]

Contents == {InvalidContent, NullContent} \cup ObjectContents

Response(transport, ok, json, choices, content) ==
    [transport |-> transport, ok |-> ok, json |-> json, choices |-> choices,
     content |-> content]

Responses ==
    {Response("error", FALSE, FALSE, FALSE, InvalidContent),
     Response("ok", FALSE, TRUE, FALSE, InvalidContent),
     Response("ok", FALSE, FALSE, FALSE, InvalidContent),
     Response("ok", TRUE, FALSE, FALSE, InvalidContent),
     Response("ok", TRUE, TRUE, FALSE, InvalidContent)}
        \cup {Response("ok", TRUE, TRUE, TRUE, c) : c \in Contents}

\* lines 332-337: what the inner catch returns
Sentinel == [foodName |-> UnknownFood, calories |-> 0, confidence |-> "low",
             description |-> <<"Could not parse AI response">>]

Thrown == [thrown |-> TRUE, result |-> NoAnalysis]

Returned(result) == [thrown |-> FALSE, result |-> result]

\* lines 322-338: JSON.parse(content.trim()) and the defaults of the fields
\* (x || d); an exception in the try block gives the sentinel
ParseContent(c) ==
    IF c.kind # "object" THEN Returned(Sentinel)
    ELSE LET v == parseInt(c.calories)
         IN  Returned([foodName |-> IF c.foodName = <<>> THEN UnknownFood ELSE c.foodName,
                       calories |-> IF isNaN(v) THEN 0 ELSE v.n,
                       confidence |-> IF c.confidence = None THEN "low" ELSE c.confidence,
                       description |-> c.description])

\* lines 279-342: fetch rejects; the status is not OK; response.json()
\* rejects; data.choices[0] throws; otherwise the content is parsed
analyzeFoodImage(r) ==
    IF r.transport # "ok" THEN Thrown
    ELSE IF ~r.ok THEN Thrown
    ELSE IF ~r.json THEN Thrown
    ELSE IF ~r.choices THEN Thrown
    ELSE ParseContent(r.content)

\* lines 88-102: pickImage, the picker returning an image: setPhotoUri,
\* then analyzePhoto starts (setAnalyzing(true), the file is read)
PickImage ==
    /\ afSave.pc = "idle"
    /\ analysis.pc \in {"idle", "failed", "done"}
    /\ photoUri' = "photo"
    /\ analyzing' = TRUE
    /\ analysis' = [pc |-> "reading"]
    /\ UNCHANGED <<foodName, calories, notes, saving, analysisResult, afSave,
                   afAlerts, afCalls>>
    /\ UNCHANGED <<envVars, authVars, historyVars, homeVars, chatVars, settingsVars, workoutVars>>

\* lines 54-59 and 72-77: readAsStringAsync resolves and analyzeFoodImage
\* is called, or it rejects: the catch block logs, finally clears analyzing
AnalyzeRead ==
    /\ analysis.pc = "reading"
    /\ \/ /\ analysis' = [pc |-> "fetching"]
          /\ UNCHANGED analyzing
       \/ /\ analysis' = [pc |-> "failed"]
          /\ analyzing' = FALSE
    /\ UNCHANGED <<photoUri, foodName, calories, notes, saving, analysisResult, afSave,
                   afAlerts, afCalls>>
    /\ UNCHANGED <<envVars, authVars, historyVars, homeVars, chatVars, settingsVars, workoutVars>>

\* lines 59-77: analyzeFoodImage returns (the result is kept and the form
\* is pre-filled from it) or throws (logged, no alert); finally clears
\* analyzing
AnalyzeDone(r) ==
    LET out == analyzeFoodImage(r)
        result == out.result
    IN  /\ analysis.pc = "fetching"
        /\ analysis' = [pc |-> "done", response |-> r, out |-> out]
        /\ analyzing' = FALSE
        /\ IF out.thrown
           THEN UNCHANGED <<analysisResult, foodName, calories, notes>>
           ELSE /\ analysisResult' = result
                /\ foodName' = IF result.foodName # <<>> /\ result.foodName # UnknownFood
                               THEN result.foodName ELSE foodName
                /\ calories' = IF result.calories > 0 THEN ToText(result.calories)
                               ELSE calories
                /\ notes' = IF result.description # <<>> THEN result.description
                            ELSE notes
        /\ UNCHANGED <<photoUri, saving, afSave, afAlerts, afCalls>>
        /\ UNCHANGED <<envVars, authVars, historyVars, homeVars, chatVars, settingsVars,
                       workoutVars>>

\* lines 221-229: the remove button of the photo
RemovePhoto ==
    /\ afSave.pc = "idle"
    /\ photoUri # None
    /\ photoUri' = None
    /\ analysisResult' = NoAnalysis
    /\ foodName' = <<>>
    /\ calories' = <<>>
    /\ notes' = <<>>
    /\ UNCHANGED <<saving, analyzing, analysis, afSave, afAlerts, afCalls>>
    /\ UNCHANGED <<envVars, authVars, historyVars, homeVars, chatVars, settingsVars, workoutVars>>

InitAnalyze ==
    /\ now = BaseDay * DayLen
    /\ tz = 0
    /\ foodStore = <<>>
    /\ workoutStore = <<>>
    /\ InitSignedIn
    /\ InitHistory
    /\ InitHome
    /\ InitForms

NextAnalyze ==
    \/ PickImage
    \/ AnalyzeRead
    \/ \E r \in Responses : AnalyzeDone(r)
    \/ RemovePhoto

SpecAnalyze == InitAnalyze /\ [][NextAnalyze]_vars

\* the call reached the content of the first choice
ContentReached(r) == r.transport = "ok" /\ r.ok /\ r.json /\ r.choices

\* C18 (as claimed): when the returned text is not valid JSON the sentinel
\* is returned and nothing is thrown; only a transport error or a non-OK
\* status is propagated.
C18_OnlyFailedCallPropagates ==
    analysis.pc = "done" =>
        /\ (ContentReached(analysis.response)
                /\ analysis.response.content.kind = "invalid")
              => analysis.out = Returned(Sentinel)
        /\ analysis.out.thrown
              => (analysis.response.transport # "ok" \/ ~analysis.response.ok)

\* the part of C18 that the code keeps: a content that JSON.parse rejects
\* gives the sentinel
SentinelOnInvalidContent ==
    (analysis.pc = "done" /\ ContentReached(analysis.response)
        /\ analysis.response.content.kind = "invalid")
      => analysis.out = Returned(Sentinel)

(***************************************************************************)
(* AddFoodScreen: the form and handleSave.  The user edits the form        *)
(* between saves; the screen is left after a successful save.  The         *)
(* answers of the analysis endpoint are explored by SpecAnalyze; here an   *)
(* analysis that was started fails at reading the file or is still         *)
(* waiting for the endpoint.                                               *)
(***************************************************************************)
MaxTextLen == 3

MaxFormAlerts == 2

\* the characters typed into the calories field
CalorieChars == {"1", "a", "-", " "}

NameChoices == {<<>>, <<" ">>, <<" ", "x">>}

NoteChoices == {<<" ">>, <<"n", " ">>}

\* lines 255-258: onChangeText of the name field
SetFoodName(text) ==
    /\ afSave.pc = "idle"
    /\ foodName' = text
    /\ UNCHANGED <<photoUri, calories, notes, saving, analyzing, analysisResult,
                   analysis, afSave, afAlerts, afCalls>>
    /\ UNCHANGED <<envVars, authVars, historyVars, homeVars, chatVars, settingsVars, workoutVars>>

\* lines 268-274: onChangeText of the calories field, a character typed
TypeCalories(c) ==
    /\ afSave.pc = "idle"
    /\ Len(calories) < MaxTextLen
    /\ calories' = Append(calories, c)
    /\ UNCHANGED <<photoUri, foodName, notes, saving, analyzing, analysisResult,
                   analysis, afSave, afAlerts, afCalls>>
    /\ UNCHANGED <<envVars, authVars, historyVars, homeVars, chatVars, settingsVars, workoutVars>>

\* lines 268-274: onChangeText of the calories field, a character erased
EraseCalories ==
    /\ afSave.pc = "idle"
    /\ calories # <<>>
    /\ calories' = SubSeq(calories, 1, Len(calories) - 1)
    /\ UNCHANGED <<photoUri, foodName, notes, saving, analyzing, analysisResult,
                   analysis, afSave, afAlerts, afCalls>>
    /\ UNCHANGED <<envVars, authVars, historyVars, homeVars, chatVars, settingsVars, workoutVars>>

\* lines 282-285: onChangeText of the notes field
SetNotes(text) ==
    /\ afSave.pc = "idle"
    /\ notes' = text
    /\ UNCHANGED <<photoUri, foodName, calories, saving, analyzing, analysisResult,
                   analysis, afSave, afAlerts, afCalls>>
    /\ UNCHANGED <<envVars, authVars, historyVars, homeVars, chatVars, settingsVars, workoutVars>>

\* lines 302-316: a 'Quick Add' chip, here { name: 'Coffee', cal: '5' }
QuickAdd ==
    /\ afSave.pc = "idle"
    /\ foodName' = <<"Coffee">>
    /\ calories' = <<"5">>
    /\ UNCHANGED <<photoUri, notes, saving, analyzing, analysisResult,
                   analysis, afSave, afAlerts, afCalls>>
    /\ UNCHANGED <<envVars, authVars, historyVars, homeVars, chatVars, settingsVars, workoutVars>>

\* an alert of AddFoodScreen
AfAlert(title, message) == Append(afAlerts, <<title, message>>)

\* lines 120-144: handleSave up to its first await: the three checks,
\* setSaving(true), then uploadImage if a photo is attached, else addDoc
handleSave ==
    /\ afSave.pc = "idle"
    /\ Len(afAlerts) < MaxFormAlerts
    /\ IF Trim(foodName) = <<>>
       THEN /\ afAlerts' = AfAlert("Error", "Please enter a food name")
            /\ UNCHANGED <<saving, afSave, afCalls>>
       ELSE IF Trim(calories) = <<>> \/ isNaN(parseInt(calories))
       THEN /\ afAlerts' = AfAlert("Error", "Please enter valid calories")
            /\ UNCHANGED <<saving, afSave, afCalls>>
       ELSE IF user = None
       THEN /\ afAlerts' = AfAlert("Error", "You must be logged in")
            /\ UNCHANGED <<saving, afSave, afCalls>>
       ELSE /\ saving' = TRUE
            /\ afSave' = [pc |-> IF photoUri # None THEN "uploading" ELSE "adding",
                          name |-> foodName, calories |-> calories, notes |-> notes,
                          photoUri |-> photoUri, photoUrl |-> None]
            /\ afCalls' = Append(afCalls,
                                 IF photoUri # None THEN "uploadImage" ELSE "addDoc")
            /\ UNCHANGED afAlerts
    /\ UNCHANGED <<photoUri, foodName, calories, notes, analyzing, analysisResult,
                   analysis>>
    /\ UNCHANGED <<envVars, authVars, historyVars, homeVars, chatVars, settingsVars, workoutVars>>

\* lines 104-118 and 141-144: uploadImage returns the download URL, or null
\* when any of its calls fails (logged); addDoc is called
UploadDone ==
    /\ afSave.pc = "uploading"
    /\ \E url \in {"url", None} :
          afSave' = [afSave EXCEPT !.pc = "adding", !.photoUrl = url]
    /\ afCalls' = Append(afCalls, "addDoc")
    /\ UNCHANGED <<photoUri, foodName, calories, notes, saving, analyzing,
                   analysisResult, analysis, afAlerts>>
    /\ UNCHANGED <<envVars, authVars, historyVars, homeVars, chatVars, settingsVars, workoutVars>>

\* lines 144-151: the document handleSave writes; notes <<>> stands for null
SavedFoodDoc(id) ==
    [id |-> id, type |-> "food", userId |-> user, name |-> Trim(afSave.name),
     calories |-> parseInt(afSave.calories).n, photoUrl |-> afSave.photoUrl,
     notes |-> Trim(afSave.notes), timestamp |-> now]

\* lines 144-161: addDoc resolves: the 'Success' alert, whose button
\* leaves the screen; finally setSaving(false)
AddDocResolve ==
    /\ afSave.pc = "adding"
    /\ foodStore' = Append(foodStore, SavedFoodDoc(Len(foodStore) + 1))
    /\ afAlerts' = AfAlert("Success", "Food entry saved!")
    /\ saving' = FALSE
    /\ afSave' = [NoSave EXCEPT !.pc = "saved"]
    /\ UNCHANGED <<photoUri, foodName, calories, notes, analyzing, analysisResult,
                   analysis, afCalls>>
    /\ UNCHANGED <<now, tz, workoutStore, authVars, historyVars, homeVars,
                   chatVars, settingsVars, workoutVars>>

\* lines 156-161: addDoc rejects: the 'Failed to save food entry' alert;
\* finally setSaving(false)
AddDocReject ==
    /\ afSave.pc = "adding"
    /\ afAlerts' = AfAlert("Error", "Failed to save food entry")
    /\ saving' = FALSE
    /\ afSave' = NoSave
    /\ UNCHANGED <<photoUri, foodName, calories, notes, analyzing, analysisResult,
                   analysis, afCalls>>
    /\ UNCHANGED <<envVars, authVars, historyVars, homeVars, chatVars, settingsVars, workoutVars>>

NextAddFood ==
    \/ \E text \in NameChoices : SetFoodName(text)
    \/ \E c \in CalorieChars : TypeCalories(c)
    \/ EraseCalories
    \/ \E text \in NoteChoices : SetNotes(text)
    \/ QuickAdd
    \/ PickImage
    \/ AnalyzeRead
    \/ RemovePhoto
    \/ handleSave
    \/ UploadDone
    \/ AddDocResolve
    \/ AddDocReject

SpecAddFood == InitAnalyze /\ [][NextAddFood]_vars

\* C12 (as claimed): every food entry that handleSave wrote has a calories
\* field that is a non-negative integer.
C12_SavedCaloriesNonNegative ==
    \A i \in 1 .. Len(foodStore) : foodStore[i].calories \in Nat

\* a text that is a number as a whole: an optional sign, then digits only
IsNumberText(t) ==
    LET s == Trim(t)
        body == IF s # <<>> /\ Head(s) \in {"-", "+"} THEN Tail(s) ELSE s
    IN  body # <<>> /\ \A i \in 1 .. Len(body) : IsDigit(body[i])

\* handleSave shows one more 'Error' alert and calls nothing
RejectedBeforeAnyCall ==
    /\ Len(afAlerts') = Len(afAlerts) + 1
    /\ afAlerts'[Len(afAlerts')][1] = "Error"
    /\ afCalls' = afCalls
    /\ afSave' = afSave
    /\ foodStore' = foodStore

\* C13 (as claimed): handleSave rejects, with an error alert and before any
\* network call, a name that is empty or white space and a calories input
\* that is empty or not a number, text that starts with digits included.
C13_InvalidInputRejected ==
    [][ (handleSave /\ (Trim(foodName) = <<>> \/ ~IsNumberText(calories)))
           => RejectedBeforeAnyCall ]_vars

\* the part of C13 that the code keeps: an empty or blank name, and a
\* calories input that is empty, blank or does not start with a number,
\* are rejected
BlankOrNaNRejected ==
    [][ (handleSave /\ (Trim(foodName) = <<>> \/ Trim(calories) = <<>>
                            \/ isNaN(parseInt(calories))))
           => RejectedBeforeAnyCall ]_vars

(***************************************************************************)
(* SettingsScreen.handleUpdateGoal and AuthProvider.updateDailyGoal.  The  *)
(* user edits the goal field between updates.                              *)
(***************************************************************************)
MinGoal == 500

MaxGoal == 10000

MaxGoalLen == 3

\* the texts of the goal field: short texts over three characters, and
\* texts on both sides of the two limits
GoalTexts ==
    Texts({"0", "5", "a"}, MaxGoalLen)
        \cup {ToText(MinGoal - 1), ToText(MinGoal), ToText(MaxGoal), ToText(MaxGoal + 1),
              ToText(0 - MinGoal), <<" ">> \o ToText(MinGoal),
              ToText(MaxGoal) \o <<".", "9">>, ToText(MinGoal) \o <<"a">>}

\* lines 85-87: onChangeText of the goal field
SetGoalInput(text) ==
    /\ goalOp.pc = "idle"
    /\ goalInput' = text
    /\ UNCHANGED <<goalSaving, goalOp, goalAlerts, goalCalls, remoteGoal>>
    /\ UNCHANGED <<envVars, authVars, historyVars, homeVars, chatVars, addFoodVars, workoutVars>>

\* an alert of SettingsScreen
GoalAlert(title) == Append(goalAlerts, title)

\* mutant: the lower limit is not checked
handleUpdateGoal_NoLowerBound ==
    LET newGoal == parseInt(goalInput)
    IN  /\ goalOp.pc = "idle"
        /\ Len(goalAlerts) < MaxFormAlerts
        /\ IF isNaN(newGoal) \/ newGoal.n > MaxGoal
           THEN /\ goalAlerts' = GoalAlert("Invalid Goal")
                /\ UNCHANGED <<goalSaving, goalOp, goalCalls>>
           ELSE /\ goalSaving' = TRUE
                /\ goalOp' = [pc |-> IF user = None THEN "skipped" ELSE "setDoc",
                              goal |-> newGoal.n]
                /\ goalCalls' = IF user = None THEN goalCalls ELSE goalCalls + 1
                /\ UNCHANGED goalAlerts
        /\ UNCHANGED <<goalInput, remoteGoal>>
        /\ UNCHANGED <<envVars, authVars, historyVars, homeVars, chatVars, addFoodVars,
                       workoutVars>>

\* SettingsScreen lines 20-29 and updateDailyGoal lines 595-597: the
\* check of the parsed goal, setSaving(true), then updateDailyGoal, which
\* returns at once without a user and calls setDoc otherwise
handleUpdateGoal ==
    LET newGoal == parseInt(goalInput)
    IN  /\ goalOp.pc = "idle"
        /\ Len(goalAlerts) < MaxFormAlerts
        /\ IF isNaN(newGoal) \/ newGoal.n < MinGoal \/ newGoal.n > MaxGoal
           THEN /\ goalAlerts' = GoalAlert("Invalid Goal")
                /\ UNCHANGED <<goalSaving, goalOp, goalCalls>>
           ELSE /\ goalSaving' = TRUE
                /\ goalOp' = [pc |-> IF user = None THEN "skipped" ELSE "setDoc",
                              goal |-> newGoal.n]
                /\ goalCalls' = IF user = None THEN goalCalls ELSE goalCalls + 1
                /\ UNCHANGED goalAlerts
        /\ UNCHANGED <<goalInput, remoteGoal>>
        /\ UNCHANGED <<envVars, authVars, historyVars, homeVars, chatVars, addFoodVars,
                       workoutVars>>

\* updateDailyGoal lines 597-598 and SettingsScreen lines 30-35: setDoc
\* resolves and the local profile takes the goal (or there was no user
\* and nothing was written); 'Success' alert; finally setSaving(false)
UpdateGoalResolve ==
    /\ goalOp.pc \in {"setDoc", "skipped"}
    /\ IF goalOp.pc = "setDoc"
       THEN /\ remoteGoal' = goalOp.goal
            /\ userProfile' = IF userProfile = NoProfile THEN NoProfile
                              ELSE [userProfile EXCEPT !.dailyGoal = goalOp.goal]
       ELSE UNCHANGED <<remoteGoal, userProfile>>
    /\ goalAlerts' = GoalAlert("Success")
    /\ goalSaving' = FALSE
    /\ goalOp' = [pc |-> "idle", goal |-> 0]
    /\ UNCHANGED <<goalInput, goalCalls>>
    /\ UNCHANGED <<user, loading, authUser, authReady, pendingNotify, secureStore,
                   restore, loginOp, logoutOp, profileFetches, authAlerts, firstScreen,
                   lastAuth>>
    /\ UNCHANGED <<envVars, historyVars, homeVars, chatVars, addFoodVars, workoutVars>>

\* SettingsScreen lines 31-35: setDoc rejects: 'Error' alert; finally
\* setSaving(false)
UpdateGoalReject ==
    /\ goalOp.pc = "setDoc"
    /\ goalAlerts' = GoalAlert("Error")
    /\ goalSaving' = FALSE
    /\ goalOp' = [pc |-> "idle", goal |-> 0]
    /\ UNCHANGED <<goalInput, goalCalls, remoteGoal>>
    /\ UNCHANGED <<envVars, authVars, historyVars, homeVars, chatVars, addFoodVars, workoutVars>>

NextSettings ==
    \/ \E text \in GoalTexts : SetGoalInput(text)
    \/ handleUpdateGoal
    \/ UpdateGoalResolve
    \/ UpdateGoalReject

SpecSettings == InitAnalyze /\ [][NextSettings]_vars

\* C14: handleUpdateGoal either calls updateDailyGoal with an integer in
\* MinGoal..MaxGoal, or shows the 'Invalid Goal' alert, makes no call and
\* leaves the stored and the local goal as they are; the stored and the
\* local goal change only to the goal of such a call.
C14_GoalUpdatedOnlyInRange ==
    /\ [][ handleUpdateGoal =>
             \/ /\ goalOp'.pc # "idle"
                /\ goalOp'.goal \in MinGoal .. MaxGoal
                /\ goalAlerts' = goalAlerts
             \/ /\ goalAlerts' = Append(goalAlerts, "Invalid Goal")
                /\ goalCalls' = goalCalls
                /\ goalOp' = goalOp
                /\ remoteGoal' = remoteGoal
                /\ userProfile' = userProfile ]_vars
    /\ [][ (remoteGoal' # remoteGoal \/ userProfile' # userProfile) =>
             /\ goalOp.pc = "setDoc"
             /\ goalOp.goal \in MinGoal .. MaxGoal
             /\ remoteGoal' = goalOp.goal
             /\ userProfile'.dailyGoal = goalOp.goal ]_vars

\* an input was rejected, then the goal at the upper limit was written,
\* from text with digits after a point
C14_Witness ==
    /\ goalAlerts = <<"Invalid Goal", "Success">>
    /\ remoteGoal = MaxGoal
    /\ userProfile.dailyGoal = MaxGoal
    /\ goalInput = ToText(MaxGoal) \o <<".", "9">>

(***************************************************************************)
(* WorkoutScreen.  The timer effect (deps isTracking, isPaused) sets an    *)
(* interval whose callback holds the selectedWorkout of the render that    *)
(* ran the effect; the handlers of the 'Finish Workout' alert hold the     *)
(* elapsedTime and caloriesBurned of the render in which stop was pressed. *)
(* The screen is left after a save, a discard or a confirmed close.        *)
(***************************************************************************)
MaxElapsed == 4

WorkoutIds == {WORKOUT_TYPES[i].id : i \in 1 .. Len(WORKOUT_TYPES)}

CaloriesPerMin(id) ==
    WORKOUT_TYPES[CHOOSE i \in 1 .. Len(WORKOUT_TYPES) : WORKOUT_TYPES[i].id = id].caloriesPerMin

\* Math.round((seconds / 60) * rate): the nearest integer, a half rounded up
RoundedCalories(seconds, rate) == (2 * seconds * rate + 60) \div 120

\* lines 234-242: a workout card is pressed; the cards are rendered only
\* while not tracking
SelectWorkout(id) ==
    /\ wSave.pc = "idle"
    /\ ~isTracking
    /\ selectedWorkout' = id
    /\ UNCHANGED <<isTracking, isPaused, elapsedTime, wCaloriesBurned, timerRef,
                   stopDialog, wSave, wAlerts>>
    /\ UNCHANGED <<envVars, authVars, historyVars, homeVars, chatVars, addFoodVars, settingsVars>>

\* lines 133-136 and 83-107: handleStart; the effect sets the interval
handleStart ==
    /\ wSave.pc = "idle"
    /\ ~isTracking
    /\ isTracking' = TRUE
    /\ isPaused' = FALSE
    /\ timerRef' = [active |-> TRUE, caloriesPerMin |-> CaloriesPerMin(selectedWorkout)]
    /\ UNCHANGED <<selectedWorkout, elapsedTime, wCaloriesBurned, stopDialog, wSave,
                   wAlerts>>
    /\ UNCHANGED <<envVars, authVars, historyVars, homeVars, chatVars, addFoodVars, settingsVars>>

\* mutant: the effect does not clear the interval when the workout is paused
handlePause_KeepsInterval ==
    /\ isTracking /\ ~isPaused
    /\ ~stopDialog.open
    /\ isPaused' = TRUE
    /\ UNCHANGED <<selectedWorkout, isTracking, elapsedTime, wCaloriesBurned,
                   timerRef, stopDialog, wSave, wAlerts>>
    /\ UNCHANGED <<envVars, authVars, historyVars, homeVars, chatVars, addFoodVars, settingsVars>>

\* lines 138-140 and 108-119: handlePause; the effect clears the interval
handlePause ==
    /\ isTracking /\ ~isPaused
    /\ ~stopDialog.open
    /\ isPaused' = TRUE
    /\ timerRef' = [active |-> FALSE, caloriesPerMin |-> 0]
    /\ UNCHANGED <<selectedWorkout, isTracking, elapsedTime, wCaloriesBurned,
                   stopDialog, wSave, wAlerts>>
    /\ UNCHANGED <<envVars, authVars, historyVars, homeVars, chatVars, addFoodVars, settingsVars>>

\* lines 142-144 and 83-107: handleResume; the effect sets a new interval
handleResume ==
    /\ isTracking /\ isPaused
    /\ ~stopDialog.open
    /\ isPaused' = FALSE
    /\ timerRef' = [active |-> TRUE, caloriesPerMin |-> CaloriesPerMin(selectedWorkout)]
    /\ UNCHANGED <<selectedWorkout, isTracking, elapsedTime, wCaloriesBurned,
                   stopDialog, wSave, wAlerts>>
    /\ UNCHANGED <<envVars, authVars, historyVars, homeVars, chatVars, addFoodVars, settingsVars>>

\* mutant: the estimate is truncated (Math.floor) instead of rounded
Tick_Truncates ==
    /\ timerRef.active
    /\ elapsedTime < MaxElapsed
    /\ elapsedTime' = elapsedTime + 1
    /\ wCaloriesBurned' = ((elapsedTime + 1) * timerRef.caloriesPerMin) \div 60
    /\ UNCHANGED <<selectedWorkout, isTracking, isPaused, timerRef, stopDialog, wSave,
                   wAlerts>>
    /\ UNCHANGED <<envVars, authVars, historyVars, homeVars, chatVars, addFoodVars, settingsVars>>

\* lines 101-107: the interval fires: one more second, and the estimate is
\* recomputed from the new time and the rate the callback holds
Tick ==
    /\ timerRef.active
    /\ elapsedTime < MaxElapsed
    /\ elapsedTime' = elapsedTime + 1
    /\ wCaloriesBurned' = RoundedCalories(elapsedTime + 1, timerRef.caloriesPerMin)
    /\ UNCHANGED <<selectedWorkout, isTracking, isPaused, timerRef, stopDialog, wSave,
                   wAlerts>>
    /\ UNCHANGED <<envVars, authVars, historyVars, homeVars, chatVars, addFoodVars, settingsVars>>

\* lines 146-182: handleStop shows the 'Finish Workout' alert
handleStop ==
    /\ isTracking
    /\ ~stopDialog.open
    /\ wSave.pc = "idle"
    /\ Len(wAlerts) < MaxFormAlerts
    /\ stopDialog' = [open |-> TRUE, type |-> selectedWorkout,
                      duration |-> elapsedTime, caloriesBurned |-> wCaloriesBurned]
    /\ UNCHANGED <<selectedWorkout, isTracking, isPaused, elapsedTime, wCaloriesBurned,
                   timerRef, wSave, wAlerts>>
    /\ UNCHANGED <<envVars, authVars, historyVars, homeVars, chatVars, addFoodVars, settingsVars>>

\* lines 185-190, then navigation.goBack(): resetWorkout; the effect
\* clears the interval; the screen is left
resetWorkout ==
    /\ isTracking' = FALSE
    /\ isPaused' = FALSE
    /\ elapsedTime' = 0
    /\ wCaloriesBurned' = 0
    /\ timerRef' = [active |-> FALSE, caloriesPerMin |-> 0]

\* lines 152-157: 'Discard'
Discard ==
    /\ stopDialog.open
    /\ resetWorkout
    /\ stopDialog' = NoDialog
    /\ wSave' = [pc |-> "left"]
    /\ UNCHANGED <<selectedWorkout, wAlerts>>
    /\ UNCHANGED <<envVars, authVars, historyVars, homeVars, chatVars, addFoodVars, settingsVars>>

\* lines 160-171: 'Save': addDoc is called with what the handler holds
SaveWorkout ==
    /\ stopDialog.open
    /\ user # None
    /\ stopDialog' = NoDialog
    /\ wSave' = [pc |-> "adding", type |-> stopDialog.type,
                 duration |-> stopDialog.duration,
                 caloriesBurned |-> stopDialog.caloriesBurned]
    /\ UNCHANGED <<selectedWorkout, isTracking, isPaused, elapsedTime, wCaloriesBurned,
                   timerRef, wAlerts>>
    /\ UNCHANGED <<envVars, authVars, historyVars, homeVars, chatVars, addFoodVars, settingsVars>>

\* lines 164-171: the document of the save; `type` is the collection, as
\* in the other documents of workoutStore, and workoutType is the
\* document's field type (selectedWorkout.id)
SavedWorkoutDoc(id) ==
    [id |-> id, type |-> "workout", userId |-> user, workoutType |-> wSave.type,
     duration |-> wSave.duration, caloriesBurned |-> wSave.caloriesBurned,
     timestamp |-> now]

\* lines 171-174: addDoc resolves: resetWorkout, the screen is left
SaveWorkoutResolve ==
    /\ wSave.pc = "adding"
    /\ workoutStore' = Append(workoutStore, SavedWorkoutDoc(Len(workoutStore) + 1))
    /\ resetWorkout
    /\ wSave' = [pc |-> "left"]
    /\ UNCHANGED <<selectedWorkout, stopDialog, wAlerts>>
    /\ UNCHANGED <<now, tz, foodStore, authVars, historyVars, homeVars,
                   chatVars, addFoodVars, settingsVars>>

\* lines 175-178: addDoc rejects: the alert; the workout goes on
SaveWorkoutReject ==
    /\ wSave.pc = "adding"
    /\ wAlerts' = Append(wAlerts, "Failed to save workout")
    /\ wSave' = [pc |-> "idle"]
    /\ UNCHANGED <<selectedWorkout, isTracking, isPaused, elapsedTime, wCaloriesBurned,
                   timerRef, stopDialog>>
    /\ UNCHANGED <<envVars, authVars, historyVars, homeVars, chatVars, addFoodVars, settingsVars>>

\* lines 192-212: handleClose while tracking, and 'Leave' confirmed
handleClose ==
    /\ isTracking
    /\ ~stopDialog.open
    /\ wSave.pc = "idle"
    /\ resetWorkout
    /\ wSave' = [pc |-> "left"]
    /\ UNCHANGED <<selectedWorkout, stopDialog, wAlerts>>
    /\ UNCHANGED <<envVars, authVars, historyVars, homeVars, chatVars, addFoodVars, settingsVars>>

NextWorkout ==
    \/ \E id \in WorkoutIds : SelectWorkout(id)
    \/ handleStart
    \/ handlePause
    \/ handleResume
    \/ Tick
    \/ handleStop
    \/ Discard
    \/ SaveWorkout
    \/ SaveWorkoutResolve
    \/ SaveWorkoutReject
    \/ handleClose

SpecWorkout == InitAnalyze /\ [][NextWorkout]_vars

\* C15 (as claimed): every saved workout has a duration of at least one
\* second.
C15_SavedDurationPositive ==
    \A i \in 1 .. Len(workoutStore) : workoutStore[i].duration \in Nat \ {0}

\* c is (seconds / 60) * rate rounded to the nearest integer, a half up
IsRounded(c, seconds, rate) ==
    /\ 60 * c <= seconds * rate + 30
    /\ seconds * rate + 30 < 60 * c + 60

\* C16: on the screen, in the 'Finish Workout' alert, in the save in
\* flight and in every saved workout, caloriesBurned is the rounded
\* product of the elapsed minutes and the rate of the workout's activity.
C16_CaloriesAreRateTimesMinutes ==
    /\ IsRounded(wCaloriesBurned, elapsedTime, CaloriesPerMin(selectedWorkout))
    /\ stopDialog.open =>
          IsRounded(stopDialog.caloriesBurned, stopDialog.duration,
                    CaloriesPerMin(stopDialog.type))
    /\ wSave.pc = "adding" =>
          IsRounded(wSave.caloriesBurned, wSave.duration, CaloriesPerMin(wSave.type))
    /\ \A i \in 1 .. Len(workoutStore) :
          IsRounded(workoutStore[i].caloriesBurned, workoutStore[i].duration,
                    CaloriesPerMin(workoutStore[i].workoutType))

\* a saved workout of another activity than the default one, whose
\* estimate (0.6) was rounded up
C16_Witness ==
    /\ Len(workoutStore) = 1
    /\ workoutStore[1].workoutType = "hiit"
    /\ workoutStore[1].duration = 3
    /\ workoutStore[1].caloriesBurned = 1

(***************************************************************************)
(* Failures of the fetches.                                                *)
(***************************************************************************)
\* C11 (as claimed): a call of fetchHistory or of fetchTodayEntries whose
\* remote read fails shows an alert.
C11_FailedFetchAlerts ==
    [][ /\ (\E f \in 1 .. MaxFetches :
               hFetch[f].pc \in {"food", "workout"} /\ hFetch'[f].pc = "failed")
              => Len(hAlerts') = Len(hAlerts) + 1
        /\ (\E f \in 1 .. MaxFetches :
               homeFetch[f].pc \in {"food", "workout"} /\ homeFetch'[f].pc = "failed")
              => Len(homeAlerts') = Len(homeAlerts) + 1 ]_vars

(***************************************************************************)
(* HistoryScreen's summary values (lines 228-234), computed at each render *)
(* from dayGroups.                                                         *)
(***************************************************************************)
totalDays == Len(dayGroups)

\* HistoryScreen's `totalCalories`
historyTotalCalories ==
    SumSeq([i \in 1 .. Len(dayGroups) |-> dayGroups[i].totalCalories])

totalWorkouts ==
    SumSeq([i \in 1 .. Len(dayGroups) |->
               Len(SelectSeq(dayGroups[i].entries, LAMBDA e : e.type = "workout"))])

\* mutant: the average is truncated instead of rounded
avgCalories_Truncated ==
    IF totalDays > 0 THEN historyTotalCalories \div totalDays ELSE 0

\* Math.round(totalCalories / totalDays): the nearest integer, a half up
avgCalories ==
    IF totalDays > 0
    THEN (2 * historyTotalCalories + totalDays) \div (2 * totalDays)
    ELSE 0

\* C17: days logged is the number of groups (one per date key); the
\* average is 0 without groups and otherwise the integer nearest to the
\* sum of the groups' totalCalories over the number of groups; the
\* workout count is the number of workout entries in the groups.
C17_SummaryValues ==
    /\ totalDays = Cardinality({dayGroups[i].date : i \in 1 .. Len(dayGroups)})
    /\ dayGroups = <<>> => avgCalories = 0
    /\ dayGroups # <<>> =>
          /\ 2 * totalDays * avgCalories <= 2 * SumOver(dayGroups, GroupCalories) + totalDays
          /\ 2 * SumOver(dayGroups, GroupCalories) + totalDays
                < 2 * totalDays * (avgCalories + 1)
    /\ totalWorkouts =
          Cardinality({e \in Range(Flatten(dayGroups)) : e.type = "workout"})

\* three groups whose average (14 / 3) is rounded up
C17_Witness ==
    /\ totalDays = 3
    /\ avgCalories * totalDays > historyTotalCalories

\* three groups, a workout among the entries, and an average (10 / 3)
\* that is rounded down
C17_WitnessWorkout ==
    /\ totalDays = 3
    /\ totalWorkouts = 1
    /\ avgCalories * totalDays < historyTotalCalories

\* no groups and an average of 0, after a fetch that found nothing
C17_WitnessEmpty ==
    /\ shown.fetch # 0
    /\ dayGroups = <<>>
    /\ avgCalories = 0

(***************************************************************************)
(* Ties of the sort, and repeated grouping.                                *)
(***************************************************************************)
\* the place of an entry in a sequence of entries (ids are unique)
PositionIn(s, e) == CHOOSE k \in 1 .. Len(s) : s[k].id = e.id

\* C19: records with identical timestamps are all kept, and within a group
\* they stand in the order they had before the sort (food entries in
\* fetch order, then workouts in fetch order), so a food entry precedes a
\* workout of the same timestamp.
C19_TiesKeepInputOrder ==
    /\ \A e \in Range(shown.input) : e \in Range(Flatten(dayGroups))
    /\ \A i \in 1 .. Len(dayGroups) :
          \A j, k \in 1 .. Len(dayGroups[i].entries) :
             LET a == dayGroups[i].entries[j]
                 b == dayGroups[i].entries[k]
             IN  (j < k /\ a.timestamp = b.timestamp) =>
                    /\ PositionIn(shown.input, a) < PositionIn(shown.input, b)
                    /\ ~(a.type = "workout" /\ b.type = "food")

\* a workout and a food entry of one timestamp, the workout being the
\* older document, are grouped with the food entry first; a second food
\* entry of that timestamp follows the first
C19_Witness ==
    /\ Len(dayGroups) = 1
    /\ Len(dayGroups[1].entries) = 3
    /\ dayGroups[1].entries[1].type = "food"
    /\ dayGroups[1].entries[2].type = "food"
    /\ dayGroups[1].entries[3].type = "workout"
    /\ dayGroups[1].entries[1].timestamp = dayGroups[1].entries[3].timestamp
    /\ dayGroups[1].entries[1].timestamp = dayGroups[1].entries[2].timestamp
    /\ dayGroups[1].entries[3].id < dayGroups[1].entries[1].id
    /\ dayGroups[1].entries[1].id < dayGroups[1].entries[2].id

AllDocs == Range(foodStore) \cup Range(workoutStore)

Displayed(d) ==
    \E e \in Range(Flatten(dayGroups)) : e.id = d.id /\ e.type = d.type

\* C21: once the fetch has completed, a document of the signed-in user
\* (food entry or workout) is displayed if and only if its timestamp is not
\* earlier than 30 days before the start of the fetch; there is no upper
\* bound, and documents of other users are not displayed.
C21_ThirtyDayWindow ==
    shown.fetch # 0 =>
        \A d \in AllDocs :
            Displayed(d) <=> ( /\ d.userId = user
                               /\ d.timestamp >= now - LookbackDays * DayLen )

\* a record dated after now and a record exactly 30 days old are displayed,
\* a record one tick older is not; workouts and food entries are among them
C21_Witness ==
    /\ shown.fetch # 0
    /\ \E d \in AllDocs : d.timestamp > now /\ Displayed(d)
    /\ \E d \in AllDocs :
          /\ d.timestamp = now - LookbackDays * DayLen
          /\ d.type = "workout"
          /\ Displayed(d)
    /\ \E d \in AllDocs :
          /\ d.timestamp = now - LookbackDays * DayLen - 1
          /\ d.userId = user
          /\ ~Displayed(d)

(***************************************************************************)
(* AIChatScreen and sendChatMessage.  A conversation is kept per mode.     *)
(* setMessages and setChatHistory are closures over `mode`, and the call   *)
(* of sendMessage in flight holds the closures, `mode` and `chatHistory`   *)
(* of the render in which it was called; their functional updates read     *)
(* the latest modeStates.                                                  *)
(***************************************************************************)
MaxChatRequests == 3   \* calls of sendChatMessage in one run

\* SYSTEM_PROMPTS[m]
SYSTEM_PROMPTS(m) == <<"system prompt", m>>

\* the first of MODE_CONFIGS[m].quickPrompts
QuickPrompt(m) == IF m = "doctor" THEN <<"Symptom check">> ELSE <<"Workout plan">>

\* what the user types: text with spaces around it, and blank text
InputTexts == {<<" ", "b", " ">>, <<" ">>}

\* the content of the completion: null or empty, or text
Completions == {<<>>, <<"y">>}

NoReply == <<"no reply">>

ErrorText == <<"Sorry, I couldn't process that request. Please try again.">>

Fallback == <<"Sorry, I could not generate a response.">>

Turn(role, content) == [role |-> role, content |-> content]

\* mutant: only the last exchange of the history is sent along
ChatMessages_LastExchange(userMessage, m, conversationHistory) ==
    <<Turn("system", SYSTEM_PROMPTS(m))>>
        \o (IF Len(conversationHistory) <= 2 THEN conversationHistory
            ELSE SubSeq(conversationHistory, Len(conversationHistory) - 1,
                        Len(conversationHistory)))
        \o <<Turn("user", userMessage)>>

\* sendChatMessage, lines 218-222: the message list of the request
ChatMessages(userMessage, m, conversationHistory) ==
    <<Turn("system", SYSTEM_PROMPTS(m))>>
        \o conversationHistory
        \o <<Turn("user", userMessage)>>

\* sendChatMessage, line 246
ChatResponse(content) == IF content = <<>> THEN Fallback ELSE content

Message(text, isUser) == [text |-> text, isUser |-> isUser]

\* setMessages(prev => [...prev, message]) of the render whose mode is m
setMessages(states, m, message) ==
    [states EXCEPT ![m].messages = Append(@, message)]

\* setChatHistory(prev => [...prev, user turn, assistant turn]), likewise
setChatHistory(states, m, text, response) ==
    [states EXCEPT ![m].chatHistory =
        @ \o <<Turn("user", text), Turn("assistant", response)>>]

ChatOpen == AppNavigator(loading, user) = "main"

\* (history) only the mode in which the last request settled is kept
Unsettled(reqs) == [k \in 1 .. Len(reqs) |-> [reqs[k] EXCEPT !.settledIn = None]]

\* mutant: sendMessage without the isTyping check of line 128
sendMessage_NoTypingCheck(text) ==
    /\ ChatOpen
    /\ IF Trim(text) = <<>>
       THEN UNCHANGED <<modeStates, inputText, isTyping, chatReqs>>
       ELSE /\ Len(chatReqs) < MaxChatRequests
            /\ modeStates' = setMessages(modeStates, mode, Message(Trim(text), TRUE))
            /\ inputText' = <<>>
            /\ isTyping' = TRUE
            /\ chatReqs' = Append(Unsettled(chatReqs),
                   [pc |-> "pending", mode |-> mode, text |-> Trim(text),
                    messages |-> ChatMessages(Trim(text), mode,
                                              modeStates[mode].chatHistory),
                    response |-> NoReply, settledIn |-> None])
    /\ UNCHANGED <<mode, showModeSelector, chatAlerts>>
    /\ UNCHANGED <<envVars, authVars, historyVars, homeVars, addFoodVars, settingsVars,
                   workoutVars>>

\* lines 127-143: sendMessage up to the await of sendChatMessage
sendMessage(text) ==
    /\ ChatOpen
    /\ IF Trim(text) = <<>> \/ isTyping
       THEN UNCHANGED <<modeStates, inputText, isTyping, chatReqs>>
       ELSE /\ Len(chatReqs) < MaxChatRequests
            /\ modeStates' = setMessages(modeStates, mode, Message(Trim(text), TRUE))
            /\ inputText' = <<>>
            /\ isTyping' = TRUE
            /\ chatReqs' = Append(Unsettled(chatReqs),
                   [pc |-> "pending", mode |-> mode, text |-> Trim(text),
                    messages |-> ChatMessages(Trim(text), mode,
                                              modeStates[mode].chatHistory),
                    response |-> NoReply, settledIn |-> None])
    /\ UNCHANGED <<mode, showModeSelector, chatAlerts>>
    /\ UNCHANGED <<envVars, authVars, historyVars, homeVars, addFoodVars, settingsVars,
                   workoutVars>>

\* line 335: onChangeText={setInputText}
SetInputText(text) ==
    /\ ChatOpen
    /\ inputText # text
    /\ inputText' = text
    /\ UNCHANGED <<mode, showModeSelector, modeStates, isTyping, chatReqs, chatAlerts>>
    /\ UNCHANGED <<envVars, authVars, historyVars, homeVars, addFoodVars, settingsVars,
                   workoutVars>>

\* lines 345-352: the send button, rendered when inputText.trim() is not
\* empty and disabled while isTyping
PressSend ==
    /\ Trim(inputText) # <<>>
    /\ ~isTyping
    /\ sendMessage(inputText)

\* lines 311-321: a quick prompt, rendered while the mode on display has at
\* most two messages
PressQuickPrompt ==
    /\ Len(modeStates[mode].messages) <= 2
    /\ sendMessage(QuickPrompt(mode))

\* the header button that opens the mode selector, and the modal's
\* onRequestClose (lines 186-191)
ToggleModeSelector ==
    /\ ChatOpen
    /\ showModeSelector' = ~showModeSelector
    /\ UNCHANGED <<mode, modeStates, inputText, isTyping, chatReqs, chatAlerts>>
    /\ UNCHANGED <<envVars, authVars, historyVars, homeVars, addFoodVars, settingsVars,
                   workoutVars>>

\* lines 121-125: switchMode, offered by the mode selector
switchMode(newMode) ==
    /\ ChatOpen
    /\ showModeSelector
    /\ mode' = newMode
    /\ showModeSelector' = FALSE
    /\ UNCHANGED <<modeStates, inputText, isTyping, chatReqs, chatAlerts>>
    /\ UNCHANGED <<envVars, authVars, historyVars, homeVars, addFoodVars, settingsVars,
                   workoutVars>>

\* mutant: the updates after the await go to the mode on display
ChatResolve_CurrentMode(k, content) ==
    LET r == chatReqs[k]
        response == ChatResponse(content)
    IN  /\ r.pc = "pending"
        /\ modeStates' = setMessages(
               setChatHistory(modeStates, mode, r.text, response),
               mode, Message(response, FALSE))
        /\ isTyping' = FALSE
        /\ chatReqs' = [chatReqs EXCEPT ![k].pc = "ok", ![k].response = response,
                                             ![k].settledIn = mode]
        /\ UNCHANGED <<mode, showModeSelector, inputText, chatAlerts>>
        /\ UNCHANGED <<envVars, authVars, historyVars, homeVars, addFoodVars,
                       settingsVars, workoutVars>>

\* lines 143-158 and 174-176: the request resolves; the history and the
\* messages of the mode of the call are extended, finally setIsTyping(false)
ChatResolve(k, content) ==
    LET r == chatReqs[k]
        response == ChatResponse(content)
    IN  /\ r.pc = "pending"
        /\ modeStates' = setMessages(
               setChatHistory(modeStates, r.mode, r.text, response),
               r.mode, Message(response, FALSE))
        /\ isTyping' = FALSE
        /\ chatReqs' = [chatReqs EXCEPT ![k].pc = "ok", ![k].response = response,
                                             ![k].settledIn = mode]
        /\ UNCHANGED <<mode, showModeSelector, inputText, chatAlerts>>
        /\ UNCHANGED <<envVars, authVars, historyVars, homeVars, addFoodVars,
                       settingsVars, workoutVars>>

\* mutant: the failed exchange is recorded in the history as well
ChatReject_KeepsTurn(k) ==
    LET r == chatReqs[k]
    IN  /\ r.pc = "pending"
        /\ chatAlerts' = chatAlerts + 1
        /\ modeStates' = setMessages(
               setChatHistory(modeStates, r.mode, r.text, ErrorText),
               r.mode, Message(ErrorText, FALSE))
        /\ isTyping' = FALSE
        /\ chatReqs' = [chatReqs EXCEPT ![k].pc = "failed", ![k].settledIn = mode]
        /\ UNCHANGED <<mode, showModeSelector, inputText>>
        /\ UNCHANGED <<envVars, authVars, historyVars, homeVars, addFoodVars,
                       settingsVars, workoutVars>>

\* lines 159-176: the request fails (no network, a status that is not OK,
\* a body that is not JSON): the alert, the error message, finally
\* setIsTyping(false)
ChatReject(k) ==
    LET r == chatReqs[k]
    IN  /\ r.pc = "pending"
        /\ chatAlerts' = chatAlerts + 1
        /\ modeStates' = setMessages(modeStates, r.mode, Message(ErrorText, FALSE))
        /\ isTyping' = FALSE
        /\ chatReqs' = [chatReqs EXCEPT ![k].pc = "failed", ![k].settledIn = mode]
        /\ UNCHANGED <<mode, showModeSelector, inputText>>
        /\ UNCHANGED <<envVars, authVars, historyVars, homeVars, addFoodVars,
                       settingsVars, workoutVars>>

NextChat ==
    \/ \E text \in InputTexts : SetInputText(text)
    \/ PressSend
    \/ PressQuickPrompt
    \/ ToggleModeSelector
    \/ \E newMode \in Modes : switchMode(newMode)
    \/ \E k \in 1 .. MaxChatRequests, content \in Completions :
          k <= Len(chatReqs) /\ ChatResolve(k, content)
    \/ \E k \in 1 .. MaxChatRequests : k <= Len(chatReqs) /\ ChatReject(k)

SpecChat == InitAnalyze /\ [][NextChat]_vars

(***************************************************************************)
(* A process start followed by the chat: restoreSession and the listener,  *)
(* then, in the main flow, AIChatScreen.                                   *)
(***************************************************************************)
NextStartAndChat ==
    \/ RestoreStep
    \/ \E uid \in {Me, Other} : ProfileFetched(uid)
    \/ NextChat

SpecStartAndChat == InitAuthStart /\ [][NextStartAndChat]_vars

RECURSIVE UserMessages(_)
UserMessages(messages) ==
    IF messages = <<>> THEN 0
    ELSE (IF Head(messages).isUser THEN 1 ELSE 0) + UserMessages(Tail(messages))

C22_WitnessChat ==
    /\ \E k \in 1 .. Len(chatReqs) : chatReqs[k].pc = "failed"
    /\ ~isTyping

\* the same of the goal update: setDoc is called only by handleUpdateGoal
\* with no call in flight, once
NoRetryGoalUpdate ==
    [][goalCalls' # goalCalls =>
          /\ goalOp.pc = "idle"
          /\ goalOp'.pc = "setDoc"
          /\ goalCalls' = goalCalls + 1]_vars

\* the same of fetchHistory: the step in which a call fails starts no call
NoRetryFetchHistory ==
    [][(\E f \in 1 .. MaxFetches : hFetch[f].pc # "failed" /\ hFetch'[f].pc = "failed")
          => \A g \in 1 .. MaxFetches : hFetch[g].pc = "idle" => hFetch'[g].pc = "idle"]_vars

(***************************************************************************)
(* Properties of the chat (specification SpecChat).                        *)
(***************************************************************************)
\* the user/assistant pairs of the successful ones among the first j
\* requests that were sent in mode m, in order
RECURSIVE PriorTurns(_, _)
PriorTurns(j, m) ==
    IF j = 0 THEN <<>>
    ELSE PriorTurns(j - 1, m)
           \o (IF chatReqs[j].mode = m /\ chatReqs[j].pc = "ok"
               THEN <<Turn("user", chatReqs[j].text),
                      Turn("assistant", chatReqs[j].response)>>
               ELSE <<>>)

\* C23: every chat request carries the system instruction of the mode in
\* which it was sent, then the user/assistant pairs of the earlier
\* successful exchanges of that mode, in order, then the new user turn;
\* turns of the other mode and failed exchanges are not included.
C23_RequestCarriesModeHistory ==
    \A k \in 1 .. Len(chatReqs) :
        chatReqs[k].messages =
            <<Turn("system", SYSTEM_PROMPTS(chatReqs[k].mode))>>
                \o PriorTurns(k - 1, chatReqs[k].mode)
                \o <<Turn("user", chatReqs[k].text)>>

\* a successful exchange in one mode, a successful one in the other mode,
\* then a request in the first mode: it carries the system turn, the pair
\* of the first exchange and the new turn
C23_Witness ==
    /\ Len(chatReqs) = 3
    /\ chatReqs[1].pc = "ok"
    /\ chatReqs[2].pc = "ok"
    /\ chatReqs[2].mode # chatReqs[1].mode
    /\ chatReqs[3].mode = chatReqs[1].mode
    /\ Len(chatReqs[3].messages) = 4

\* a request that follows a failed exchange of its mode carries no turn of it
C23_WitnessAfterFailure ==
    /\ Len(chatReqs) >= 2
    /\ chatReqs[1].pc = "failed"
    /\ chatReqs[2].mode = chatReqs[1].mode
    /\ Len(chatReqs[2].messages) = 2

(***************************************************************************)
(* The stored credential pair over process starts.  The process ends and   *)
(* is started again: AuthProvider and the auth service start afresh, the   *)
(* secure store keeps its item.                                            *)
(***************************************************************************)
Restart ==
    /\ loginOp.pc = "idle"
    /\ logoutOp.pc = "idle"
    /\ restore.pc = "done"
    /\ user' = None
    /\ userProfile' = NoProfile
    /\ loading' = TRUE
    /\ authUser' = None
    /\ authReady' = FALSE
    /\ pendingNotify' = "idle"
    /\ restore' = [pc |-> "getItem", outcome |-> None]
    /\ profileFetches' = {}
    /\ authAlerts' = 0
    /\ firstScreen' = None
    /\ lastAuth' = [lastAuth EXCEPT !.thisProcess = FALSE]
    /\ UNCHANGED <<secureStore, loginOp, logoutOp>>
    /\ UNCHANGED <<envVars, historyVars, homeVars, formVars>>

NextAuthRestart ==
    \/ NextAuth
    \/ Restart

SpecAuthRestart == InitAuthStart /\ [][NextAuthRestart]_vars

C24_WitnessLogin ==
    /\ lastAuth.kind = "login"
    /\ lastAuth.thisProcess
    /\ lastAuth.cred = Pair("b", "ok")
    /\ restore.outcome = "rejected"

(***************************************************************************)
(* The profile and the user (specification SpecAuth).                      *)
(***************************************************************************)
\* C25: userProfile is non-null only while user is non-null, and it is the
\* profile of that user, under every interleaving of sign-in, logout and
\* the profile fetch the listener starts.
C25_ProfileBelongsToUser ==
    userProfile # NoProfile => (user # None /\ userProfile.uid = user)

\* what does hold: a profile is installed only by a profile fetch, and it
\* is the profile of the user the listener was called with
ProfileOfAFetchedUser ==
    [][(userProfile' # userProfile /\ userProfile' # NoProfile)
          => userProfile'.uid \in profileFetches]_vars

\* the other mode
OtherMode(m) == IF m = "doctor" THEN "fitness" ELSE "doctor"

\* C26: a request that settles, whatever the mode on display, appends its
\* reply and its pair of turns (or its error message) to the conversation
\* of the mode in which it was sent and leaves the other mode's messages and
\* history as they are; switching mode changes neither conversation.
C26_ReplyGoesToSendingMode ==
    /\ [][mode' # mode => modeStates' = modeStates]_vars
    /\ [][\A k \in 1 .. Len(chatReqs) :
            LET r == chatReqs[k]
                m == r.mode
            IN  /\ (r.pc = "pending" /\ chatReqs'[k].pc # "pending")
                      => modeStates'[OtherMode(m)] = modeStates[OtherMode(m)]
                /\ (r.pc = "pending" /\ chatReqs'[k].pc = "ok")
                      => /\ modeStates'[m].messages =
                              Append(modeStates[m].messages,
                                     Message(chatReqs'[k].response, FALSE))
                         /\ modeStates'[m].chatHistory =
                              modeStates[m].chatHistory
                                \o <<Turn("user", r.text),
                                     Turn("assistant", chatReqs'[k].response)>>
                /\ (r.pc = "pending" /\ chatReqs'[k].pc = "failed")
                      => modeStates'[m].messages =
                              Append(modeStates[m].messages, Message(ErrorText, FALSE))
          ]_vars

\* a request sent in one mode has been answered while the other mode was on
\* display: its conversation has the reply, the other has its greeting only
C26_Witness ==
    /\ Len(chatReqs) = 1
    /\ chatReqs[1].pc = "ok"
    /\ chatReqs[1].settledIn = OtherMode(chatReqs[1].mode)
    /\ Len(modeStates[chatReqs[1].mode].messages) = 3
    /\ Len(modeStates[chatReqs[1].mode].chatHistory) = 2
    /\ Len(modeStates[OtherMode(chatReqs[1].mode)].messages) = 1
    /\ modeStates[OtherMode(chatReqs[1].mode)].chatHistory = <<>>

\* the same of a request that failed
C26_WitnessFailed ==
    /\ Len(chatReqs) = 1
    /\ chatReqs[1].pc = "failed"
    /\ chatReqs[1].settledIn = OtherMode(chatReqs[1].mode)
    /\ Len(modeStates[chatReqs[1].mode].messages) = 3
    /\ Len(modeStates[OtherMode(chatReqs[1].mode)].messages) = 1

Pending == {k \in 1 .. Len(chatReqs) : chatReqs[k].pc = "pending"}

\* C27: at most one chat request is pending, over both modes; isTyping is
\* true exactly while a request is pending (so it is false again after a
\* reply and after a failure); while isTyping is true no step sends a
\* request, and a step that sends none leaves the conversations, the
\* requests and isTyping alone unless it settles the pending request.
C27_OneRequestInFlight ==
    /\ [](Cardinality(Pending) <= 1)
    /\ [](isTyping <=> Pending # {})
    /\ [][isTyping => Len(chatReqs') = Len(chatReqs)]_vars
    /\ [][(isTyping /\ isTyping')
             => (modeStates' = modeStates /\ chatReqs' = chatReqs)]_vars
    /\ [][\A k \in 1 .. Len(chatReqs) :
             (chatReqs[k].pc = "pending" /\ chatReqs'[k].pc # "pending") => ~isTyping']_vars

\* a request is pending and the quick prompts of the mode on display are
\* offered: pressing one calls sendMessage while isTyping is true
C27_Witness ==
    /\ isTyping
    /\ Cardinality(Pending) = 1
    /\ Len(modeStates[mode].messages) <= 2
    /\ ENABLED PressQuickPrompt

\* a second request was sent after the first had failed
C27_WitnessAfterFailure ==
    /\ Len(chatReqs) = 2
    /\ chatReqs[1].pc = "failed"
    /\ chatReqs[2].pc = "pending"
    /\ isTyping

\* the roles alternate user, assistant, starting with user
Alternates(history) ==
    \A i \in 1 .. Len(history) :
        history[i].role = IF i % 2 = 1 THEN "user" ELSE "assistant"

\* C28: when a request fails, the history of its mode is unchanged, and
\* from the send to the failure the messages of the mode gain the user's
\* message and then one error message; when it succeeds the history gains
\* one user turn and one assistant turn.  So a history has even length
\* with the roles alternating, and holds as many turns as the successful
\* requests of its mode account for.
C28_HistoryOnlyOfSuccesses ==
    /\ [][\A k \in 1 .. Len(chatReqs) :
            LET r == chatReqs[k]
                m == r.mode
            IN  /\ (r.pc = "pending" /\ chatReqs'[k].pc = "failed")
                      => /\ modeStates'[m].chatHistory = modeStates[m].chatHistory
                         /\ Len(modeStates[m].messages) >= 2
                         /\ modeStates'[m].messages =
                              SubSeq(modeStates[m].messages, 1,
                                     Len(modeStates[m].messages) - 1)
                                \o <<Message(r.text, TRUE), Message(ErrorText, FALSE)>>
                /\ (r.pc = "pending" /\ chatReqs'[k].pc = "ok")
                      => /\ Len(modeStates'[m].chatHistory)
                              = Len(modeStates[m].chatHistory) + 2
                         /\ SubSeq(modeStates'[m].chatHistory, 1,
                                   Len(modeStates[m].chatHistory))
                              = modeStates[m].chatHistory
          ]_vars
    /\ [](\A m \in Modes :
            /\ Len(modeStates[m].chatHistory) % 2 = 0
            /\ Alternates(modeStates[m].chatHistory)
            /\ Len(modeStates[m].chatHistory) = Len(PriorTurns(Len(chatReqs), m)))

\* a request failed after a successful exchange in its mode: the history
\* holds the pair of the first exchange only, the messages are the
\* greeting, the first exchange, the user's message and the error message
C28_Witness ==
    /\ Len(chatReqs) = 2
    /\ chatReqs[1].pc = "ok"
    /\ chatReqs[2].pc = "failed"
    /\ chatReqs[2].mode = chatReqs[1].mode
    /\ Len(modeStates[chatReqs[1].mode].chatHistory) = 2
    /\ Len(modeStates[chatReqs[1].mode].messages) = 5
    /\ modeStates[chatReqs[1].mode].messages[5] = Message(ErrorText, FALSE)
    /\ chatAlerts = 1

(***************************************************************************)
(* The photo and the form of AddFoodScreen (specification SpecAnalyze, in  *)
(* which the user edits no field).                                         *)
(***************************************************************************)
FormCleared ==
    /\ foodName = <<>>
    /\ calories = <<>>
    /\ notes = <<>>
    /\ analysisResult = NoAnalysis

\* C29: with no photo attached (none picked yet, or the photo removed) the
\* name, calories and notes fields are empty and there is no analysis
\* result: an analysis still in flight for a removed photo writes nothing.
C29_NoPhotoNoAnalysisInForm ==
    photoUri = None => FormCleared

\* what does hold: the step that removes the photo clears the form
RemoveClearsForm ==
    [][(photoUri # None /\ photoUri' = None) => FormCleared']_vars

(***************************************************************************)
(* The workout timer (specification SpecWorkout).                          *)
(***************************************************************************)
WorkoutReset ==
    /\ elapsedTime = 0
    /\ wCaloriesBurned = 0
    /\ ~isTracking
    /\ ~isPaused

\* C30: elapsedTime changes by one second at a time and only while a
\* workout is tracked and not paused, or it is reset; while paused or
\* before the start it and caloriesBurned stay as they are; resume goes on
\* from the value at the pause; discard, leave and a successful save reset
\* the workout; a failed save leaves it as it is; the activity cannot
\* change while elapsedTime is above 0.
C30_TimerOnlyWhileTracking ==
    /\ [](~isTracking => elapsedTime = 0 /\ wCaloriesBurned = 0)
    /\ [][elapsedTime' # elapsedTime =>
             \/ (isTracking /\ ~isPaused /\ elapsedTime' = elapsedTime + 1)
             \/ WorkoutReset']_vars
    /\ [][(~isTracking \/ isPaused) =>
             \/ (elapsedTime' = elapsedTime /\ wCaloriesBurned' = wCaloriesBurned)
             \/ WorkoutReset']_vars
    /\ [][(isPaused /\ ~isPaused' /\ isTracking') =>
             (elapsedTime' = elapsedTime /\ wCaloriesBurned' = wCaloriesBurned)]_vars
    /\ [][(wSave.pc # "left" /\ wSave'.pc = "left") => WorkoutReset']_vars
    /\ [][(wSave.pc = "adding" /\ wSave'.pc = "idle") =>
             UNCHANGED <<selectedWorkout, isTracking, isPaused, elapsedTime,
                         wCaloriesBurned, timerRef>>]_vars
    /\ [][elapsedTime > 0 => selectedWorkout' = selectedWorkout]_vars

\* a workout paused after some seconds, whose save has failed: the time
\* and the estimate are kept
C30_Witness ==
    /\ isTracking
    /\ isPaused
    /\ elapsedTime >= 2
    /\ wCaloriesBurned > 0
    /\ wSave.pc = "idle"
    /\ Len(wAlerts) = 1

\* a workout was saved and the screen left: the workout is reset
C30_WitnessSaved ==
    /\ wSave.pc = "left"
    /\ Len(workoutStore) = 1
    /\ workoutStore[1].duration > 0
    /\ WorkoutReset

====
